---- MODULE Spec2Model ----
(***************************************************************************)
(* Rate-limited polling and incremental sync engine of dao-social-tracker. *)
(*                                                                         *)
(* RateLimitManager  (client/services/twitter/rateLimitManager.ts)         *)
(* EngagementSyncService and its TwitterService collaborator               *)
(*                                                                         *)
(* Time is counted in ticks of five minutes: the hard-coded 15 * 60 * 1000 *)
(* ms window and cooldown are 3 ticks.  The configurable limits of         *)
(* RateLimitConfig are scaled down to small values.                        *)
(***************************************************************************)
EXTENDS Integers, Sequences, FiniteSets, TLC

(* ---------------------------- bounds ----------------------------------- *)
\* last instant of the wall clock that is explored
MaxTime == 9
\* last instant explored when the manager is called on its own
RLMaxTime == 7
\* length of a calendar month in ticks
MonthLen == 5
\* RateLimitConfig.requestsPer15Min, scaled
RequestsPer15Min == 2
\* RateLimitConfig.requestsPerMonth, scaled
RequestsPerMonth == 3
\* RateLimitConfig.postsPerMonth, scaled
PostsPerMonth == 2
\* RateLimitConfig.delayBetweenRequests, in ticks
DelayBetweenRequests == 1
\* number of recordRequest calls that are explored
MaxRequests == 3
\* largest argument of incrementPostCount that is explored
MaxPostBatch == 2

(* ------------------------ program constants ---------------------------- *)
\* 15 * 60 * 1000 ms, the sliding window of cleanupRequestWindow
FifteenMinutes == 3

\* Date.now() at construction: far enough from the epoch that the zero
\* initial values of lastRequestTime and lastApiErrorTime are older than
\* the window, the cooldown and the delay
StartTime == FifteenMinutes


(* ------------------------ bounds of the engine ------------------------- *)
\* rows of the accounts table that carry a twitter_handle
NumEntities == 2
\* tweets an account has at the API; tweet ids are 1..MaxTweets, newest highest
MaxTweets == 2
\* largest like_count the API reports
MaxLike == 1
\* invocations of runEngagementSync that start a pass
MaxRuns == 1
\* passes of the long-lived scheduler of SpecQuota
MaxScheduledRuns == 2
\* EngagementSyncOptions.maxRequestsPerBatch, scaled
MaxRequestsPerBatch == 1
\* the longest a response takes, in ticks
MaxLatency == 1
\* the last date the follower tracking reaches, in days since 2024-01-01
MaxDay == 2
\* follower counts 0..MaxFollowers, and one count that is more than ten
\* times the smallest positive one
MaxFollowers == 1
ViralFollowers == 11
\* rows of account_follower_history
MaxHistory == 2
\* the text cap of validateTweetData (5000), scaled, in UTF-16 code units
MaxTextLength == 3
\* code units of the longest tweet text
MaxTextUnits == 5
\* runFollowerSync calls that start a pass
MaxFollowerPasses == 2
\* the calendar, scaled: days of a week, a month, a year
DaysPerWeek == 2
DaysPerMonth == 4
DaysPerYear == 8

(* ------------------- program constants of the engine ------------------- *)
\* 15 * 60 * 1000 ms, the cooldown of waitForApiErrorCooldown
ApiErrorCooldown == 3
\* EngagementSyncOptions.daysToLookBack: 5 days, in ticks
DaysToLookBack == 1440
\* the smallest magnitude a DECIMAL(5,2) cannot hold (1000.00), in hundredths
PercentageLimit == 100000
\* the date '2024-01-01' of update_account_growth_periods, as a day number
MetricsEpoch == 0

VARIABLES
    now,                  \* wall clock, Date.now()
    requestWindow,        \* RateLimitManager.requestWindow
    monthlyRequestCount,  \* RateLimitManager.monthlyRequestCount
    monthlyPostCount,     \* RateLimitManager.monthlyPostCount
    monthStartDate,       \* RateLimitManager.monthStartDate
    lastRequestTime,      \* RateLimitManager.lastRequestTime
    rlPc,                 \* position of the caller inside checkRateLimit / waitForRateLimit
    rlWake,               \* instant the pending setTimeout of that caller fires
    rlResult,             \* value returned by the last synchronous query
    reqLog,               \* history: instants of all incrementRequestCount calls
    syncInterval,         \* EngagementSyncService.syncInterval is set
    isRunning,            \* EngagementSyncService.isRunning
    lastApiErrorTime,     \* EngagementSyncService.lastApiErrorTime
    pc,                   \* position of the pass: idle, load, user, timeline, batch, log
    phase,                \* position inside the gated call at pc
    wake,                 \* instant the cooldown timer of the pass fires
    idx,                  \* index of the account the pass is at
    lastTweetId,          \* lastTweetId read by fetchNewTweetsFromTimeline (0 for null), kept until the account is done
    pending,              \* ids of the recent tweets not yet batched
    stats,                \* stats of syncDAOEngagement
    aggregateStats,       \* aggregateStats of runEngagementSync, returned at its end
    store,                \* account_<slug>_tweets tables
    accountsTable,        \* accounts with a twitter_handle
    faults,               \* store errors and malformed API payloads may occur
    runLimit,             \* number of passes the process lives for
    lastInvoke,           \* history: outcome of the last invocation or timer tick
    runs,                 \* history: passes started
    inFlight,             \* history: passes started and not ended
    callLog,              \* history: instants at which external calls were issued
    lastTransientTime,    \* history: instant of the last 429/503 answer, 0 for none
    failedFetch,          \* history: accounts whose timeline fetch failed in this pass
    quotaRaised,          \* history: checkRateLimit raised the monthly error in this pass
    done,                 \* history: accounts whose stats were aggregated in this pass
    lastIngest,           \* history: counters written by the last store operation
    syncStats,            \* account_sync_stats table: the stats rows logSyncStats stored
    returned,             \* history: passes that returned their stats object
    currentDate,          \* CURRENT_DATE, in days since 2024-01-01
    followerSnapshots,    \* follower_daily_snapshots, unique per (account_id, date)
    followerHistory,      \* account_follower_history, in order of recorded_at
    accountFollowers,     \* accounts.follower_count
    growthMetrics,        \* account_growth_metrics, unique per (account_id, period_type, period_start)
    growthResult,         \* what the last database function call returned
    apiResponse,          \* the tweet objects of an API response handed to the store functions
    followerSyncInterval, \* ProductionSyncServer.followerSyncInterval is set
    isShuttingDown,       \* ProductionSyncServer.isShuttingDown
    followerPasses,       \* the runFollowerSync calls in flight, each with its position
    followerRuns          \* history: runFollowerSync calls that started a pass

clockVars == <<now>>
rlVars == <<requestWindow, monthlyRequestCount, monthlyPostCount, monthStartDate,
            lastRequestTime, rlPc, rlWake, rlResult, reqLog>>
schedVars == <<syncInterval, lastInvoke, runs>>
posVars == <<pc, phase, wake>>
entVars == <<idx, lastTweetId, pending, stats, aggregateStats, done>>
errVars == <<lastApiErrorTime, lastTransientTime>>
dataVars == <<store, lastIngest>>
logVars == <<syncStats, returned>>
growthVars == <<currentDate, followerSnapshots, followerHistory, accountFollowers,
               growthMetrics, growthResult>>
ingestVars == <<apiResponse>>
serverVars == <<followerSyncInterval, isShuttingDown, followerPasses, followerRuns>>
envVars == <<accountsTable, faults, runLimit, growthVars, ingestVars, serverVars>>
engineVars == <<syncInterval, lastInvoke, runs, isRunning, inFlight, pc, phase, wake,
                idx, lastTweetId, pending, stats, aggregateStats, done,
                lastApiErrorTime, lastTransientTime, store, lastIngest,
                callLog, failedFetch, quotaRaised, accountsTable, faults, runLimit, growthVars, ingestVars, serverVars, syncStats, returned>>
vars == <<now, requestWindow, monthlyRequestCount, monthlyPostCount, monthStartDate,
          lastRequestTime, rlPc, rlWake, rlResult, reqLog,
          syncInterval, lastInvoke, runs, isRunning, inFlight, pc, phase, wake,
          idx, lastTweetId, pending, stats, aggregateStats, done,
          lastApiErrorTime, lastTransientTime, store, lastIngest,
          callLog, failedFetch, quotaRaised, accountsTable, faults, runLimit, growthVars, ingestVars, serverVars, syncStats, returned>>

(* --------------------------- helpers ----------------------------------- *)
Min(S) == CHOOSE x \in S : \A y \in S : x <= y

Max0(a, b) == IF a > b THEN a ELSE b

SeqToSet(s) == {s[i] : i \in 1..Len(s)}

\* new Date(now.getFullYear(), now.getMonth(), 1)
MonthStartOf(t) == (t \div MonthLen) * MonthLen

(* ------------------------ RateLimitManager ----------------------------- *)
CleanupRequestWindowNoPrune(w, t) == w

\* cleanupRequestWindow: keep the timestamps younger than fifteen minutes
CleanupRequestWindow(w, t) ==
    SelectSeq(w, LAMBDA ts : ts > t - FifteenMinutes)

\* checkMonthlyReset: is the current month start later than the tracked one
MonthlyResetDue(t, msd) == MonthStartOf(t) > msd

\* the three fields checkMonthlyReset assigns
ResetRequestCount(t, msd, c) == IF MonthlyResetDue(t, msd) THEN 0 ELSE c
ResetPostCount(t, msd, c) == IF MonthlyResetDue(t, msd) THEN 0 ELSE c
ResetMonthStart(t, msd) == IF MonthlyResetDue(t, msd) THEN MonthStartOf(t) ELSE msd

CanMakeRequestValueNoSpacing(w, c, last, t) ==
    /\ ~ (Len(w) >= RequestsPer15Min)
    /\ ~ (c >= RequestsPerMonth)

\* the decision of canMakeRequest on the cleaned-up state
CanMakeRequestValue(w, c, last, t) ==
    /\ ~ (Len(w) >= RequestsPer15Min)
    /\ ~ (c >= RequestsPerMonth)
    /\ ~ (t - last < DelayBetweenRequests)

MonthlyLimitExceededOffByOne(c) == c > RequestsPerMonth

\* the monthly check that ends checkRateLimit
MonthlyLimitExceeded(c) == c >= RequestsPerMonth

\* canMakeRequest()
CanMakeRequest ==
    LET w == CleanupRequestWindow(requestWindow, now)
        c == ResetRequestCount(now, monthStartDate, monthlyRequestCount)
    IN  /\ requestWindow' = w
        /\ monthlyRequestCount' = c
        /\ monthlyPostCount' = ResetPostCount(now, monthStartDate, monthlyPostCount)
        /\ monthStartDate' = ResetMonthStart(now, monthStartDate)
        /\ rlResult' = [op |-> "canMakeRequest",
                        value |-> CanMakeRequestValue(w, c, lastRequestTime, now)]
        /\ UNCHANGED <<lastRequestTime, rlPc, rlWake, reqLog>>

\* checkRateLimit(), from the monthly check to its end
CheckRateLimitMonthly(c) ==
    rlPc' = IF MonthlyLimitExceeded(c) THEN "threw" ELSE "returned"

CheckRateLimitWindowNoWait(w, c) ==
    /\ CheckRateLimitMonthly(c)
    /\ rlWake' = 0

\* checkRateLimit(), from the 15-minute window check on
CheckRateLimitWindow(w, c) ==
    IF Len(w) >= RequestsPer15Min /\ (Min(SeqToSet(w)) + FifteenMinutes) - now > 0
    THEN /\ rlPc' = "window"
         /\ rlWake' = Min(SeqToSet(w)) + FifteenMinutes
    ELSE /\ CheckRateLimitMonthly(c)
         /\ rlWake' = 0

\* checkRateLimit(), entry up to the first await
CheckRateLimitEnter ==
    LET w == CleanupRequestWindow(requestWindow, now)
        c == ResetRequestCount(now, monthStartDate, monthlyRequestCount)
    IN  /\ rlPc = "none"
        /\ requestWindow' = w
        /\ monthlyRequestCount' = c
        /\ monthlyPostCount' = ResetPostCount(now, monthStartDate, monthlyPostCount)
        /\ monthStartDate' = ResetMonthStart(now, monthStartDate)
        /\ IF now - lastRequestTime < DelayBetweenRequests
           THEN /\ rlPc' = "delay"
                /\ rlWake' = now + (DelayBetweenRequests - (now - lastRequestTime))
           ELSE CheckRateLimitWindow(w, c)
        /\ UNCHANGED <<lastRequestTime, rlResult, reqLog>>

\* checkRateLimit(), resumed after the delay-between-requests timer
CheckRateLimitAfterDelay ==
    /\ rlPc = "delay"
    /\ now >= rlWake
    /\ CheckRateLimitWindow(requestWindow, monthlyRequestCount)
    /\ UNCHANGED <<requestWindow, monthlyRequestCount, monthlyPostCount, monthStartDate,
                   lastRequestTime, rlResult, reqLog>>

\* checkRateLimit(), resumed after the window timer
CheckRateLimitAfterWindow ==
    /\ rlPc = "window"
    /\ now >= rlWake
    /\ CheckRateLimitMonthly(monthlyRequestCount)
    /\ rlWake' = 0
    /\ UNCHANGED <<requestWindow, monthlyRequestCount, monthlyPostCount, monthStartDate,
                   lastRequestTime, rlResult, reqLog>>

\* waitForRateLimit(), entry up to its await
WaitForRateLimitEnter ==
    LET w == CleanupRequestWindow(requestWindow, now)
    IN  /\ rlPc = "none"
        /\ requestWindow' = w
        /\ IF Len(w) >= RequestsPer15Min /\ (Min(SeqToSet(w)) + FifteenMinutes) - now > 0
           THEN /\ rlPc' = "waiting"
                /\ rlWake' = Min(SeqToSet(w)) + FifteenMinutes
           ELSE /\ rlPc' = "waited"
                /\ rlWake' = 0
        /\ UNCHANGED <<monthlyRequestCount, monthlyPostCount, monthStartDate,
                       lastRequestTime, rlResult, reqLog>>

\* waitForRateLimit(), resumed after its timer
WaitForRateLimitAfterWait ==
    /\ rlPc = "waiting"
    /\ now >= rlWake
    /\ rlPc' = "waited"
    /\ rlWake' = 0
    /\ UNCHANGED <<requestWindow, monthlyRequestCount, monthlyPostCount, monthStartDate,
                   lastRequestTime, rlResult, reqLog>>

\* incrementRequestCount()
IncrementRequestCount ==
    /\ requestWindow' = Append(requestWindow, now)
    /\ monthlyRequestCount' = monthlyRequestCount + 1
    /\ lastRequestTime' = now
    /\ reqLog' = Append(reqLog, now)
    /\ UNCHANGED <<monthlyPostCount, monthStartDate, rlPc, rlWake, rlResult>>

\* incrementPostCount(postCount)
IncrementPostCount(postCount) ==
    /\ monthlyPostCount' = monthlyPostCount + postCount
    /\ UNCHANGED <<requestWindow, monthlyRequestCount, monthStartDate, lastRequestTime,
                   rlPc, rlWake, rlResult, reqLog>>

\* getStatus()
GetStatus ==
    LET w == CleanupRequestWindow(requestWindow, now)
        c == ResetRequestCount(now, monthStartDate, monthlyRequestCount)
        p == ResetPostCount(now, monthStartDate, monthlyPostCount)
        nextReset == IF Len(w) > 0 THEN Min(SeqToSet(w)) + FifteenMinutes ELSE now
    IN  /\ requestWindow' = w
        /\ monthlyRequestCount' = c
        /\ monthlyPostCount' = p
        /\ monthStartDate' = ResetMonthStart(now, monthStartDate)
        /\ rlResult' = [op |-> "getStatus",
                        value |-> CanMakeRequestValue(w, c, lastRequestTime, now),
                        requestsUsedLast15Min |-> Len(w),
                        requestsUsedThisMonth |-> c,
                        postsRetrievedThisMonth |-> p,
                        timeUntilReset |-> Max0(0, nextReset - now)]
        /\ UNCHANGED <<lastRequestTime, rlPc, rlWake, reqLog>>


(* ----------------- EngagementSyncService: data and helpers -------------- *)
TweetIds == 1..MaxTweets

\* what can be wrong with a tweet object of an API response
Defects == {"none", "no_id", "no_text", "no_date", "bad_date"}

\* the variants of one tweet object the API can return; the counters of an
\* object that validateTweetData rejects are never read
PayloadVariants(f) ==
    IF f THEN [like_count : 0..MaxLike, defect : {"none", "bad_date"}]
                \cup [like_count : {0}, defect : Defects \ {"none", "bad_date"}]
         ELSE {[like_count |-> 0, defect |-> "none"]}

\* created_at of tweet id as the API reports it: ids grow with the
\* creation instant, and every tweet was created before the clock starts
RealCreatedAt(id) == id - MaxTweets

NoRow == [present |-> FALSE, created_at |-> 0, like_count |-> 0, text |-> <<>>, url |-> <<>>]

EmptyTable == [id \in TweetIds |-> NoRow]

ZeroStats == [totalTweetsProcessed |-> 0, tweetsUpdated |-> 0, tweetsAdded |-> 0,
              apiRequestsUsed |-> 0, errors |-> <<>>]

NoIngest == [account |-> 0, like_count |-> [id \in TweetIds |-> -1]]

FormatTwitterDateNoFallback(p, t) == RealCreatedAt(p.id)

\* formatTwitterDate: the parsed instant, or the current instant
FormatTwitterDate(p, t) == IF p.defect = "bad_date" THEN t ELSE RealCreatedAt(p.id)

\* the text of a tweet: UTF-16 code units, "c" for a character of one unit,
\* "H" "L" for the surrogate pair of a character outside the basic plane
TextCharacters == {<<"c">>, <<"H", "L">>}

RECURSIVE TextsOfCharacters(_)
TextsOfCharacters(n) ==
    IF n = 0 THEN {<<>>}
    ELSE LET S == TextsOfCharacters(n - 1)
         IN  S \cup {s \o c : s \in S, c \in TextCharacters}

\* the well-formed texts of at most MaxTextUnits code units
Texts == {t \in TextsOfCharacters(MaxTextUnits) : Len(t) <= MaxTextUnits}

\* the text of the tweets of the timeline: one character
DefaultText == <<"c">>

\* the '...' appended to a cut text
TruncationMarker == <<".", ".", ".">>

\* truncatedText of validateTweetData: length and substring count code units
TruncatedText(text) ==
    IF Len(text) > MaxTextLength
    THEN SubSeq(text, 1, MaxTextLength) \o TruncationMarker
    ELSE text

\* twitter_handle of the row of account e in the accounts table
TwitterHandle(e) == e

\* the web link of a tweet: https://x.com/<handle>/status/<id>
Url(handle, id) == <<handle, id>>

ValidateTweetDataIgnoresText(p, handle, t) ==
    [isValid |-> p.defect \notin {"no_id", "no_date"},
     data |-> [present |-> TRUE,
               created_at |-> FormatTwitterDate(p, t),
               like_count |-> Max0(0, p.like_count),
               text |-> TruncatedText(p.text),
               url |-> Url(handle, p.id)]]

\* validateTweetData(tweet, account) for an account with twitter_handle
\* handle; an empty text is a missing text
ValidateTweetData(p, handle, t) ==
    [isValid |-> p.defect \notin {"no_id", "no_text", "no_date"} /\ p.text # <<>>,
     data |-> [present |-> TRUE,
               created_at |-> FormatTwitterDate(p, t),
               like_count |-> Max0(0, p.like_count),
               text |-> TruncatedText(p.text),
               url |-> Url(handle, p.id)]]

\* getLastSyncedTweetId: the ids a read ordered by created_at descending,
\* limit 1, can return
LastSyncedCandidates(tbl) ==
    {id \in TweetIds : /\ tbl[id].present
                       /\ \A o \in TweetIds :
                             tbl[o].present => tbl[o].created_at <= tbl[id].created_at}

\* getLastSyncedTweetId: null (0) on an empty table or a failed read
LastSyncedTweetIds(tbl, f) ==
    (IF LastSyncedCandidates(tbl) = {} THEN {0} ELSE LastSyncedCandidates(tbl))
      \cup (IF f THEN {0} ELSE {})

\* ids s+1..k, newest first
NewestFirst(s, k) == [i \in 1..(k - s) |-> k - i + 1]

\* TwitterService.fetchUserTweets: the tweets newer than since_id, newest
\* first, for every number k of tweets the account has at that moment
TimelineResponses(since, f) ==
    UNION {{[i \in 1..(k - since) |->
                [id |-> NewestFirst(since, k)[i],
                 like_count |-> a[NewestFirst(since, k)[i]].like_count,
                 defect |-> a[NewestFirst(since, k)[i]].defect,
                 text |-> DefaultText]]
            : a \in [(since + 1)..k -> PayloadVariants(f)]}
           : k \in since..MaxTweets}

\* TwitterService.getTweetsByIds: the requested tweets, in request order
TweetsByIdsResponses(batch, f) ==
    {[i \in 1..Len(batch) |->
         [id |-> batch[i], like_count |-> a[i].like_count, defect |-> a[i].defect,
          text |-> DefaultText]]
     : a \in [1..Len(batch) -> PayloadVariants(f)]}

\* the sets of tweet ids whose store write can fail
WriteFailures(tweets, f) ==
    IF f THEN SUBSET {tweets[i].id : i \in 1..Len(tweets)} ELSE {{}}

RECURSIVE StoreNewTweetsStopsAtFailure(_, _, _, _, _)
StoreNewTweetsStopsAtFailure(tbl, account, tweets, t, failing) ==
    IF tweets = <<>> \/ Head(tweets).id \in failing THEN [table |-> tbl, stored |-> 0]
    ELSE LET p == Head(tweets)
             v == ValidateTweetData(p, TwitterHandle(account), t)
             inserted == v.isValid /\ ~ tbl[p.id].present
             rest == StoreNewTweetsStopsAtFailure(
                        IF inserted THEN [tbl EXCEPT ![p.id] = v.data] ELSE tbl,
                        account, Tail(tweets), t, failing)
         IN  [table |-> rest.table,
              stored |-> rest.stored + (IF inserted THEN 1 ELSE 0)]

\* storeNewTweets(account, tweets): insert every valid tweet, skip duplicates
\* and failed writes
RECURSIVE StoreNewTweets(_, _, _, _, _)
StoreNewTweets(tbl, account, tweets, t, failing) ==
    IF tweets = <<>> THEN [table |-> tbl, stored |-> 0]
    ELSE LET p == Head(tweets)
             v == ValidateTweetData(p, TwitterHandle(account), t)
             inserted == v.isValid /\ ~ tbl[p.id].present /\ p.id \notin failing
             rest == StoreNewTweets(IF inserted THEN [tbl EXCEPT ![p.id] = v.data] ELSE tbl,
                                    account, Tail(tweets), t, failing)
         IN  [table |-> rest.table,
              stored |-> rest.stored + (IF inserted THEN 1 ELSE 0)]

\* the twitter_handle of the account object updateEngagementMetrics builds
UnknownHandle == 0

\* updateData of updateEngagementMetrics: the validated fields without the
\* links, which the row keeps
UpdateData(row, data) == [data EXCEPT !.url = row.url]

\* updateEngagementMetrics(accountSlug, tweets): update the existing row,
\* insert an absent one
RECURSIVE UpdateEngagementMetrics(_, _, _, _)
UpdateEngagementMetrics(tbl, tweets, t, failing) ==
    IF tweets = <<>> THEN [table |-> tbl, updated |-> 0, added |-> 0]
    ELSE LET p == Head(tweets)
             v == ValidateTweetData(p, UnknownHandle, t)
             written == v.isValid /\ p.id \notin failing
             existing == tbl[p.id].present
             row == IF existing THEN UpdateData(tbl[p.id], v.data) ELSE v.data
             rest == UpdateEngagementMetrics(IF written THEN [tbl EXCEPT ![p.id] = row] ELSE tbl,
                                             Tail(tweets), t, failing)
         IN  [table |-> rest.table,
              updated |-> rest.updated + (IF written /\ existing THEN 1 ELSE 0),
              added |-> rest.added + (IF written /\ ~ existing THEN 1 ELSE 0)]

\* history: the counters of the tweets a store operation took in
\* (valid, and neither write failed), -1 for the others
IngestOf(e, tweets, failing) ==
    [account |-> e,
     like_count |-> [id \in TweetIds |->
        IF \E i \in 1..Len(tweets) :
              /\ tweets[i].id = id
              /\ tweets[i].defect \notin {"no_id", "no_text", "no_date"}
              /\ tweets[i].text # <<>>
              /\ id \notin failing
        THEN LET i == CHOOSE j \in 1..Len(tweets) : tweets[j].id = id
             IN  Max0(0, tweets[i].like_count)
        ELSE -1]]

\* ids of tbl ordered by created_at descending (ties: higher id first)
RECURSIVE OrderDesc(_, _)
OrderDesc(tbl, ids) ==
    IF ids = {} THEN <<>>
    ELSE LET top == CHOOSE id \in ids :
                      \A o \in ids :
                         \/ tbl[o].created_at < tbl[id].created_at
                         \/ (tbl[o].created_at = tbl[id].created_at /\ o <= id)
         IN  <<top>> \o OrderDesc(tbl, ids \ {top})

\* getRecentTweets: ids of the rows of the last daysToLookBack days
GetRecentTweets(tbl, t) ==
    OrderDesc(tbl, {id \in TweetIds : tbl[id].present /\ tbl[id].created_at >= t - DaysToLookBack})

\* tweetIds.slice(i, i + batchSize)
FirstBatch(ids) ==
    SubSeq(ids, 1, IF Len(ids) < MaxRequestsPerBatch THEN Len(ids) ELSE MaxRequestsPerBatch)

RestBatches(ids) ==
    SubSeq(ids, Len(FirstBatch(ids)) + 1, Len(ids))

\* the aggregation of runEngagementSync
Aggregate(agg, st) ==
    [totalTweetsProcessed |-> agg.totalTweetsProcessed + st.totalTweetsProcessed,
     tweetsUpdated |-> agg.tweetsUpdated + st.tweetsUpdated,
     tweetsAdded |-> agg.tweetsAdded + st.tweetsAdded,
     apiRequestsUsed |-> agg.apiRequestsUsed + st.apiRequestsUsed,
     errors |-> agg.errors \o st.errors]

InCooldownNever(t, last) == FALSE

InCooldownForever(t, last) == last > 0

\* the cooldown test of waitForApiErrorCooldown and of the interval callback
InCooldown(t, last) == t - last < ApiErrorCooldown

CurrentAccount == accountsTable[idx]

(* -------------------- EngagementSyncService: the pass ------------------- *)
RunEngagementSyncEntryNoGuard ==
    /\ isRunning' = TRUE
    /\ inFlight' = inFlight + 1
    /\ runs' = runs + 1
    /\ lastInvoke' = "started"
    /\ aggregateStats' = ZeroStats
    /\ pc' = "load"
    /\ phase' = "none"
    /\ wake' = 0
    /\ idx' = 0
    /\ lastTweetId' = 0
    /\ pending' = <<>>
    /\ stats' = ZeroStats
    /\ failedFetch' = {}
    /\ quotaRaised' = FALSE
    /\ done' = {}

RunEngagementSyncEntryGuardInTry ==
    IF isRunning
    THEN /\ lastInvoke' = "rejected"
         /\ isRunning' = FALSE
         /\ UNCHANGED <<inFlight, runs, aggregateStats, pc, phase, wake, idx,
                        lastTweetId, pending, stats, failedFetch, quotaRaised, done>>
    ELSE RunEngagementSyncEntryNoGuard

\* runEngagementSync(), up to its first await: the already-running guard
RunEngagementSyncEntry ==
    IF isRunning
    THEN /\ lastInvoke' = "rejected"
         /\ UNCHANGED <<isRunning, inFlight, runs, aggregateStats, pc, phase, wake, idx,
                        lastTweetId, pending, stats, failedFetch, quotaRaised, done>>
    ELSE /\ isRunning' = TRUE
         /\ inFlight' = inFlight + 1
         /\ runs' = runs + 1
         /\ lastInvoke' = "started"
         /\ aggregateStats' = ZeroStats
         /\ pc' = "load"
         /\ phase' = "none"
         /\ wake' = 0
         /\ idx' = 0
         /\ lastTweetId' = 0
         /\ pending' = <<>>
         /\ stats' = ZeroStats
         /\ failedFetch' = {}
         /\ quotaRaised' = FALSE
         /\ done' = {}

\* a caller invokes runEngagementSync()
RunOnce ==
    /\ isRunning \/ runs < runLimit
    /\ RunEngagementSyncEntry
    /\ UNCHANGED <<now, syncInterval, lastApiErrorTime, lastTransientTime, store,
                   lastIngest, callLog, accountsTable, faults, runLimit, growthVars, ingestVars, serverVars, syncStats, returned>>
    /\ UNCHANGED rlVars

\* startAutomaticSync(): the initial sync and the interval
StartAutomaticSync ==
    /\ ~ syncInterval
    /\ isRunning \/ runs < runLimit
    /\ RunEngagementSyncEntry
    /\ syncInterval' = TRUE
    /\ UNCHANGED <<now, lastApiErrorTime, lastTransientTime, store,
                   lastIngest, callLog, accountsTable, faults, runLimit, growthVars, ingestVars, serverVars, syncStats, returned>>
    /\ UNCHANGED rlVars

StopAutomaticSyncKeepsTimer ==
    /\ syncInterval
    /\ lastInvoke' = "stopped"
    /\ UNCHANGED <<now, syncInterval, runs, isRunning, inFlight, pc, phase, wake,
                   idx, lastTweetId, pending, stats, aggregateStats, done,
                   lastApiErrorTime, lastTransientTime, store, lastIngest,
                   callLog, failedFetch, quotaRaised, accountsTable, faults, runLimit, growthVars, ingestVars, serverVars, syncStats, returned>>
    /\ UNCHANGED rlVars

\* stopAutomaticSync(): clears the interval and returns
StopAutomaticSync ==
    /\ syncInterval
    /\ syncInterval' = FALSE
    /\ lastInvoke' = "stopped"
    /\ UNCHANGED <<now, runs, isRunning, inFlight, pc, phase, wake,
                   idx, lastTweetId, pending, stats, aggregateStats, done,
                   lastApiErrorTime, lastTransientTime, store, lastIngest,
                   callLog, failedFetch, quotaRaised, accountsTable, faults, runLimit, growthVars, ingestVars, serverVars, syncStats, returned>>
    /\ UNCHANGED rlVars

\* the setInterval callback of startAutomaticSync
TimerTick ==
    /\ syncInterval
    /\ IF InCooldown(now, lastApiErrorTime)
       THEN /\ lastInvoke' = "skipped"
            /\ UNCHANGED <<isRunning, inFlight, runs, aggregateStats, pc, phase, wake, idx,
                           lastTweetId, pending, stats, failedFetch, quotaRaised, done>>
       ELSE /\ isRunning \/ runs < runLimit
            /\ RunEngagementSyncEntry
    /\ UNCHANGED <<now, syncInterval, lastApiErrorTime, lastTransientTime, store,
                   lastIngest, callLog, accountsTable, faults, runLimit, growthVars, ingestVars, serverVars, syncStats, returned>>
    /\ UNCHANGED rlVars

EndPassKeepsFlag ==
    /\ isRunning' = isRunning
    /\ inFlight' = inFlight - 1
    /\ pc' = "idle"
    /\ phase' = "none"
    /\ returned' = returned + 1

\* the end of runEngagementSync: the finally block and the return
EndPass ==
    /\ isRunning' = FALSE
    /\ inFlight' = inFlight - 1
    /\ pc' = "idle"
    /\ phase' = "none"
    /\ returned' = returned + 1

FatalCatchRethrows ==
    /\ UNCHANGED <<aggregateStats, returned>>
    /\ isRunning' = FALSE
    /\ inFlight' = inFlight - 1
    /\ pc' = "idle"
    /\ phase' = "none"

\* the outer catch of runEngagementSync, then its end
FatalCatch ==
    /\ aggregateStats' =
          [aggregateStats EXCEPT !.errors = Append(@, [kind |-> "fatal", account |-> 0])]
    /\ EndPass

\* getDAOTwitterAccounts() answers: the accounts, or the error of the read
LoadAccounts ==
    /\ pc = "load"
    /\ \E ok \in BOOLEAN :
          IF ok
          THEN /\ IF accountsTable = <<>>
                  THEN pc' = "log" /\ idx' = 0 /\ phase' = "none"
                  ELSE pc' = "user" /\ idx' = 1 /\ phase' = "enter"
               /\ UNCHANGED <<isRunning, inFlight, aggregateStats, returned>>
          ELSE /\ FatalCatch
               /\ idx' = 0
    /\ UNCHANGED <<now, syncInterval, lastInvoke, runs, wake, lastTweetId, pending, stats,
                   done, lastApiErrorTime, lastTransientTime, store, lastIngest,
                   callLog, failedFetch, quotaRaised, accountsTable, faults, runLimit, growthVars, ingestVars, serverVars, syncStats>>
    /\ UNCHANGED rlVars

\* logSyncStats() answers: the row is stored, or the write fails and the
\* failure is swallowed; then the end of runEngagementSync
LogSyncStats ==
    /\ pc = "log"
    /\ \E ok \in BOOLEAN :
          syncStats' = IF ok THEN Append(syncStats, aggregateStats) ELSE syncStats
    /\ EndPass
    /\ UNCHANGED <<now, syncInterval, lastInvoke, runs, wake, idx, lastTweetId, pending,
                   stats, aggregateStats, done, lastApiErrorTime, lastTransientTime,
                   store, lastIngest, callLog, failedFetch, quotaRaised, accountsTable, faults,
                   runLimit, growthVars, ingestVars, serverVars>>
    /\ UNCHANGED rlVars

\* syncDAOEngagement returns st: aggregate and go to the next account
EntityDone(st) ==
    /\ aggregateStats' = Aggregate(aggregateStats, st)
    /\ done' = done \cup {CurrentAccount}
    /\ stats' = ZeroStats
    /\ pending' = <<>>
    /\ lastTweetId' = 0
    /\ IF idx < Len(accountsTable)
       THEN idx' = idx + 1 /\ pc' = "user" /\ phase' = "enter"
       ELSE idx' = idx /\ pc' = "log" /\ phase' = "none"

\* syncDAOEngagement after fetchNewTweetsFromTimeline returned tweets:
\* storeNewTweets, the stats of step 1, getRecentTweets
FinishTimeline(tweets, failing) ==
    LET e == CurrentAccount
        r == StoreNewTweets(store[e], e, tweets, now, failing)
        st == [ZeroStats EXCEPT !.tweetsAdded = r.stored,
                                !.apiRequestsUsed = IF Len(tweets) > 0 THEN 2 ELSE 1]
    IN  /\ store' = [store EXCEPT ![e] = r.table]
        /\ lastIngest' = IngestOf(e, tweets, failing)
        /\ \E recent \in {GetRecentTweets(r.table, now)} \cup (IF faults THEN {<<>>} ELSE {}) :
              IF recent = <<>>
              THEN EntityDone(st)
              ELSE /\ stats' = st
                   /\ pending' = recent
                   /\ pc' = "batch"
                   /\ phase' = "start"
                   /\ UNCHANGED <<idx, lastTweetId, aggregateStats, done>>

\* the batch loop of syncDAOEngagement moves on with stats st
NextBatch(st) ==
    IF RestBatches(pending) = <<>>
    THEN EntityDone(st)
    ELSE /\ stats' = st
         /\ pending' = RestBatches(pending)
         /\ phase' = "start"
         /\ UNCHANGED <<pc, idx, lastTweetId, aggregateStats, done>>

(* ---------------------- the gate before every call ---------------------- *)
\* waitForApiErrorCooldown(), then the entry of checkRateLimit()
GateEnter ==
    /\ pc \in {"user", "timeline", "batch"}
    /\ phase = "enter"
    /\ IF InCooldown(now, lastApiErrorTime)
       THEN /\ phase' = "cooldown"
            /\ wake' = now + (ApiErrorCooldown - (now - lastApiErrorTime))
            /\ UNCHANGED rlVars
       ELSE /\ phase' = "ratelimit"
            /\ wake' = 0
            /\ CheckRateLimitEnter
    /\ UNCHANGED <<now, syncInterval, lastInvoke, runs, isRunning, inFlight, pc,
                   idx, lastTweetId, pending, stats, aggregateStats, done,
                   lastApiErrorTime, lastTransientTime, store, lastIngest,
                   callLog, failedFetch, quotaRaised, accountsTable, faults, runLimit, growthVars, ingestVars, serverVars, syncStats, returned>>

\* the cooldown timer fires: the entry of checkRateLimit()
GateAfterCooldown ==
    /\ phase = "cooldown"
    /\ now >= wake
    /\ phase' = "ratelimit"
    /\ wake' = 0
    /\ CheckRateLimitEnter
    /\ UNCHANGED <<now, syncInterval, lastInvoke, runs, isRunning, inFlight, pc,
                   idx, lastTweetId, pending, stats, aggregateStats, done,
                   lastApiErrorTime, lastTransientTime, store, lastIngest,
                   callLog, failedFetch, quotaRaised, accountsTable, faults, runLimit, growthVars, ingestVars, serverVars, syncStats, returned>>

GateAfterDelay ==
    /\ phase = "ratelimit"
    /\ CheckRateLimitAfterDelay
    /\ UNCHANGED <<now>>
    /\ UNCHANGED engineVars

GateAfterWindow ==
    /\ phase = "ratelimit"
    /\ CheckRateLimitAfterWindow
    /\ UNCHANGED <<now>>
    /\ UNCHANGED engineVars

\* checkRateLimit() returned: the TwitterService method sends the request
IssueCall ==
    /\ phase = "ratelimit"
    /\ rlPc = "returned"
    /\ rlPc' = "none"
    /\ phase' = "inflight"
    /\ callLog' = Append(callLog, now)
    /\ UNCHANGED <<now, requestWindow, monthlyRequestCount, monthlyPostCount, monthStartDate,
                   lastRequestTime, rlWake, rlResult, reqLog>>
    /\ UNCHANGED <<syncInterval, lastInvoke, runs, isRunning, inFlight, pc, wake,
                   idx, lastTweetId, pending, stats, aggregateStats, done,
                   lastApiErrorTime, lastTransientTime, store, lastIngest,
                   failedFetch, quotaRaised, accountsTable, faults, runLimit, growthVars, ingestVars, serverVars, syncStats, returned>>

\* the RateLimitManager fields an action leaves alone when it only takes
\* the outcome of checkRateLimit()
RlSettled ==
    /\ rlPc' = "none"
    /\ UNCHANGED <<requestWindow, monthlyRequestCount, monthlyPostCount, monthStartDate,
                   lastRequestTime, rlWake, rlResult, reqLog>>

(* ------------------------- getTwitterUserId ----------------------------- *)
\* checkRateLimit() raised in getTwitterUserId: handleApiError, null, []
UserGateThrew ==
    /\ pc = "user" /\ phase = "ratelimit" /\ rlPc = "threw"
    /\ RlSettled
    /\ lastApiErrorTime' = now
    /\ quotaRaised' = TRUE
    /\ FinishTimeline(<<>>, {})
    /\ UNCHANGED <<now, syncInterval, lastInvoke, runs, isRunning, inFlight, wake,
                   lastTransientTime, callLog, failedFetch, accountsTable, faults, runLimit, growthVars, ingestVars, serverVars, syncStats, returned>>

\* getUserByUsername answers: a user, or null for no such user and for any
\* error, which TwitterService swallows
UserResponse ==
    /\ pc = "user" /\ phase = "inflight"
    /\ IncrementRequestCount
    /\ \E outcome \in {"ok", "notfound", "transient"} :
          /\ lastTransientTime' = IF outcome = "transient" THEN now ELSE lastTransientTime
          /\ IF outcome = "ok"
             THEN /\ \E last \in LastSyncedTweetIds(store[CurrentAccount], faults) :
                        lastTweetId' = last
                  /\ pc' = "timeline"
                  /\ phase' = "enter"
                  /\ UNCHANGED <<idx, pending, stats, aggregateStats, done, store, lastIngest>>
             ELSE FinishTimeline(<<>>, {})
    /\ UNCHANGED <<now, syncInterval, lastInvoke, runs, isRunning, inFlight, wake,
                   lastApiErrorTime, callLog, failedFetch, quotaRaised, accountsTable, faults, runLimit, growthVars, ingestVars, serverVars, syncStats, returned>>

(* --------------------- fetchNewTweetsFromTimeline ----------------------- *)
\* checkRateLimit() raised in fetchNewTweetsFromTimeline: handleApiError, []
TimelineGateThrew ==
    /\ pc = "timeline" /\ phase = "ratelimit" /\ rlPc = "threw"
    /\ RlSettled
    /\ lastApiErrorTime' = now
    /\ quotaRaised' = TRUE
    /\ FinishTimeline(<<>>, {})
    /\ UNCHANGED <<now, syncInterval, lastInvoke, runs, isRunning, inFlight, wake,
                   lastTransientTime, callLog, failedFetch, accountsTable, faults, runLimit, growthVars, ingestVars, serverVars, syncStats, returned>>

\* fetchUserTweets answers: the new tweets, or [] for any error, which
\* TwitterService swallows
TimelineResponse ==
    /\ pc = "timeline" /\ phase = "inflight"
    /\ IncrementRequestCount
    /\ \E outcome \in {"ok", "transient"} :
          /\ lastTransientTime' = IF outcome = "transient" THEN now ELSE lastTransientTime
          /\ IF outcome = "ok"
             THEN /\ \E tweets \in TimelineResponses(lastTweetId, faults) :
                        \E failing \in WriteFailures(tweets, faults) :
                           FinishTimeline(tweets, failing)
                  /\ UNCHANGED failedFetch
             ELSE /\ FinishTimeline(<<>>, {})
                  /\ failedFetch' = failedFetch \cup {CurrentAccount}
    /\ UNCHANGED <<now, syncInterval, lastInvoke, runs, isRunning, inFlight, wake,
                   lastApiErrorTime, callLog, quotaRaised, accountsTable, faults, runLimit, growthVars, ingestVars, serverVars, syncStats, returned>>

(* ------------------------- the batch loop ------------------------------- *)
\* canMakeRequest() at the head of the loop body
BatchStart ==
    /\ pc = "batch" /\ phase = "start"
    /\ CanMakeRequest
    /\ phase' = IF rlResult'.value THEN "enter" ELSE "wait"
    /\ UNCHANGED <<now, syncInterval, lastInvoke, runs, isRunning, inFlight, pc, wake,
                   idx, lastTweetId, pending, stats, aggregateStats, done,
                   lastApiErrorTime, lastTransientTime, store, lastIngest,
                   callLog, failedFetch, quotaRaised, accountsTable, faults, runLimit, growthVars, ingestVars, serverVars, syncStats, returned>>

\* waitForRateLimit() is called
BatchWait ==
    /\ pc = "batch" /\ phase = "wait"
    /\ WaitForRateLimitEnter
    /\ UNCHANGED <<now>>
    /\ UNCHANGED engineVars

BatchAfterWait ==
    /\ pc = "batch" /\ phase = "wait"
    /\ WaitForRateLimitAfterWait
    /\ UNCHANGED <<now>>
    /\ UNCHANGED engineVars

\* waitForRateLimit() returned
BatchWaited ==
    /\ pc = "batch" /\ phase = "wait" /\ rlPc = "waited"
    /\ RlSettled
    /\ phase' = "enter"
    /\ UNCHANGED <<now, syncInterval, lastInvoke, runs, isRunning, inFlight, pc, wake,
                   idx, lastTweetId, pending, stats, aggregateStats, done,
                   lastApiErrorTime, lastTransientTime, store, lastIngest,
                   callLog, failedFetch, quotaRaised, accountsTable, faults, runLimit, growthVars, ingestVars, serverVars, syncStats, returned>>

\* the error message the batch loop pushes
BatchError(st) ==
    [st EXCEPT !.errors = Append(@, [kind |-> "batch", account |-> CurrentAccount])]

\* checkRateLimit() raised in fetchEngagementData: handleApiError, rethrow,
\* the catch of the batch loop
BatchGateThrew ==
    /\ pc = "batch" /\ phase = "ratelimit" /\ rlPc = "threw"
    /\ RlSettled
    /\ lastApiErrorTime' = now
    /\ quotaRaised' = TRUE
    /\ NextBatch(BatchError(stats))
    /\ UNCHANGED <<now, syncInterval, lastInvoke, runs, isRunning, inFlight, wake,
                   lastTransientTime, store, lastIngest,
                   callLog, failedFetch, accountsTable, faults, runLimit, growthVars, ingestVars, serverVars, syncStats, returned>>

\* getTweetsByIds answers with the tweets: updateEngagementMetrics
BatchResponse ==
    /\ pc = "batch" /\ phase = "inflight"
    /\ IncrementRequestCount
    /\ \E fresh \in TweetsByIdsResponses(FirstBatch(pending), faults) :
          \E failing \in WriteFailures(fresh, faults) :
             LET e == CurrentAccount
                 r == UpdateEngagementMetrics(store[e], fresh, now, failing)
             IN  /\ store' = [store EXCEPT ![e] = r.table]
                 /\ lastIngest' = IngestOf(e, fresh, failing)
                 /\ NextBatch([stats EXCEPT
                        !.apiRequestsUsed = @ + 1,
                        !.tweetsUpdated = @ + r.updated,
                        !.tweetsAdded = @ + r.added,
                        !.totalTweetsProcessed = @ + Len(fresh)])
    /\ UNCHANGED <<now, syncInterval, lastInvoke, runs, isRunning, inFlight, wake,
                   lastApiErrorTime, lastTransientTime,
                   callLog, failedFetch, quotaRaised, accountsTable, faults, runLimit, growthVars, ingestVars, serverVars, syncStats, returned>>

\* getTweetsByIds raises: handleApiError, rethrow, the catch of the loop
BatchFailure ==
    /\ pc = "batch" /\ phase = "inflight"
    /\ \E outcome \in {"transient", "other"} :
          lastTransientTime' = IF outcome = "transient" THEN now ELSE lastTransientTime
    /\ lastApiErrorTime' = now
    /\ NextBatch(BatchError(stats))
    /\ UNCHANGED <<now, syncInterval, lastInvoke, runs, isRunning, inFlight, wake,
                   store, lastIngest, callLog, failedFetch, quotaRaised, accountsTable, faults, runLimit, growthVars, ingestVars, serverVars, syncStats, returned>>
    /\ UNCHANGED rlVars

(* ------------------------------ clock ---------------------------------- *)
\* time passes while nothing runs, while a request is in flight (a response
\* takes at most MaxLatency) and while a pass sleeps on a timer, which fires
\* when it is due
Tick ==
    /\ now < MaxTime
    /\ \/ pc = "idle"
       \/ phase = "inflight" /\ now - callLog[Len(callLog)] < MaxLatency
       \/ phase = "cooldown" /\ now < wake
       \/ rlPc \in {"delay", "window", "waiting"} /\ now < rlWake
    /\ now' = now + 1
    /\ UNCHANGED rlVars
    /\ UNCHANGED engineVars

(* ---------------- RateLimitManager driven by any caller ---------------- *)
\* time passes between two calls on the manager
RLTick ==
    /\ now < RLMaxTime
    /\ now' = now + 1
    /\ UNCHANGED rlVars
    /\ UNCHANGED engineVars

RLCanMakeRequest == CanMakeRequest /\ UNCHANGED clockVars /\ UNCHANGED engineVars

RLCheckRateLimit == CheckRateLimitEnter /\ UNCHANGED clockVars /\ UNCHANGED engineVars

RLAfterDelay == CheckRateLimitAfterDelay /\ UNCHANGED clockVars /\ UNCHANGED engineVars

RLAfterWindow == CheckRateLimitAfterWindow /\ UNCHANGED clockVars /\ UNCHANGED engineVars

RLWaitForRateLimit == WaitForRateLimitEnter /\ UNCHANGED clockVars /\ UNCHANGED engineVars

RLAfterWait == WaitForRateLimitAfterWait /\ UNCHANGED clockVars /\ UNCHANGED engineVars

RLIncrementRequestCount ==
    /\ Len(reqLog) < MaxRequests
    /\ IncrementRequestCount
    /\ UNCHANGED clockVars /\ UNCHANGED engineVars

RLIncrementPostCount ==
    /\ \E n \in 1..MaxPostBatch :
          /\ monthlyPostCount + n <= PostsPerMonth
          /\ IncrementPostCount(n)
    /\ UNCHANGED clockVars /\ UNCHANGED engineVars

RLGetStatus == GetStatus /\ UNCHANGED clockVars /\ UNCHANGED engineVars

\* the awaited promise settles: the caller takes the outcome
RLSettle ==
    /\ rlPc \in {"returned", "threw", "waited"}
    /\ rlPc' = "none"
    /\ UNCHANGED <<now, requestWindow, monthlyRequestCount, monthlyPostCount,
                   monthStartDate, lastRequestTime, rlWake, rlResult, reqLog>>
    /\ UNCHANGED engineVars


(* ================= follower growth tracking (SQL) ==================== *)
\* accounts whose followers are tracked
GrowthAccounts == 1..NumEntities

\* dates the model reaches; day 0 is 2024-01-01, a Monday
Dates == 0..MaxDay

\* follower counts the API reports
FollowerCounts == (0..MaxFollowers) \cup {ViralFollowers}

PeriodTypes == {"daily", "weekly", "monthly", "yearly"}

\* SQL NULL where a follower count is expected; counts are not negative
Null == 0 - 1

Abs(n) == IF n < 0 THEN 0 - n ELSE n

\* ROUND(n / d, 0) on numeric for d > 0: halves round away from zero
RoundDiv(n, d) ==
    IF n >= 0 THEN (2 * n + d) \div (2 * d)
              ELSE 0 - ((2 * (0 - n) + d) \div (2 * d))

\* ROUND((change::DECIMAL / base) * 100, 2), in hundredths of a percent
PercentageOf(change, base) == RoundDiv(change * 10000, base)

\* a value a DECIMAL(5,2) variable or column cannot hold: the assignment
\* raises "numeric field overflow"
NumericOverflow(hundredths) == Abs(hundredths) >= PercentageLimit

NoSnapshot == [present |-> FALSE]

NoMetric == [present |-> FALSE]

\* rows of follower_daily_snapshots of account a whose date satisfies P
SnapshotDates(snaps, a) == {d \in Dates : snaps[a][d].present}

\* date_trunc('week' | 'month' | 'year', d) in the scaled calendar
WeekStart(d) == d - (d % DaysPerWeek)

MonthStart(d) == d - (d % DaysPerMonth)

YearStart(d) == d - (d % DaysPerYear)

\* SELECT follower_count FROM account_follower_history WHERE account_id = a
\* AND DATE(recorded_at) <= d ORDER BY recorded_at DESC LIMIT 1
LatestHistoryCount(hist, a, d) ==
    LET I == {i \in DOMAIN hist : hist[i].account_id = a /\ hist[i].date <= d}
    IN  IF I = {} THEN Null ELSE hist[CHOOSE i \in I : \A j \in I : j <= i].follower_count

Coalesce(v, dflt) == IF v = Null THEN dflt ELSE v

\* calculate_period_growth(a, type, start, end)
CalculatePeriodGrowth(hist, a, start, end) ==
    LET v_start == Coalesce(LatestHistoryCount(hist, a, start), 0)
        v_end == Coalesce(LatestHistoryCount(hist, a, end), 0)
        v_growth == v_end - v_start
        pct == IF v_start > 0 THEN PercentageOf(v_growth, v_start) ELSE 0
    IN  [raised |-> NumericOverflow(pct),
         start_followers |-> v_start,
         end_followers |-> v_end,
         growth_count |-> v_growth,
         growth_percentage |-> pct]

UpsertedMetricAccumulates(old, end, g) ==
    [present |-> TRUE,
     period_end |-> end,
     start_followers |-> g.start_followers,
     end_followers |-> g.end_followers,
     growth_count |-> IF old.present THEN old.growth_count + g.growth_count
                                     ELSE g.growth_count,
     growth_percentage |-> g.growth_percentage]

\* the row INSERT ... ON CONFLICT DO UPDATE leaves for the key (the id and
\* the timestamp columns, which nothing reads, are left out)
UpsertedMetric(old, end, g) ==
    [present |-> TRUE,
     period_end |-> end,
     start_followers |-> g.start_followers,
     end_followers |-> g.end_followers,
     growth_count |-> g.growth_count,
     growth_percentage |-> g.growth_percentage]

\* upsert_account_growth_metrics(a, type, start, end) on table m: the new
\* table, or raised when calculate_period_growth raises
UpsertAccountGrowthMetrics(m, hist, a, type, start, end) ==
    LET g == CalculatePeriodGrowth(hist, a, start, end)
    IN  IF g.raised
        THEN [raised |-> TRUE, table |-> m]
        ELSE [raised |-> FALSE,
              table |-> [m EXCEPT ![<<a, type, start>>] =
                            UpsertedMetric(m[<<a, type, start>>], end, g)]]

\* the periods update_account_growth_periods writes on day today, in order
GrowthPeriodsOf(today) ==
    LET week_start == WeekStart(today)
        month_start == MonthStart(today)
        year_start == YearStart(today)
        P(cond, type, start, end) ==
            IF cond THEN <<[type |-> type, start |-> start, end |-> end]>> ELSE <<>>
    IN  P(today > MetricsEpoch, "daily", today - 1, today)
        \o P(week_start > MetricsEpoch, "weekly", week_start, week_start + DaysPerWeek - 1)
        \o P(month_start > MetricsEpoch, "monthly", month_start, month_start + DaysPerMonth - 1)
        \o P(year_start > MetricsEpoch, "yearly", year_start, year_start + DaysPerYear - 1)
        \o P(today = week_start /\ week_start - DaysPerWeek > MetricsEpoch,
             "weekly", week_start - DaysPerWeek, week_start - 1)
        \o P(today = month_start /\ month_start - DaysPerMonth > MetricsEpoch,
             "monthly", month_start - DaysPerMonth, month_start - 1)
        \o P(today = year_start /\ year_start - DaysPerYear > MetricsEpoch,
             "yearly", year_start - DaysPerYear, year_start - 1)

RECURSIVE UpsertPeriods(_, _, _, _)
UpsertPeriods(m, hist, a, periods) ==
    IF periods = <<>>
    THEN [raised |-> FALSE, table |-> m]
    ELSE LET r == UpsertAccountGrowthMetrics(m, hist, a, periods[1].type,
                                             periods[1].start, periods[1].end)
         IN  IF r.raised THEN r
             ELSE UpsertPeriods(r.table, hist, a, Tail(periods))

\* update_account_growth_periods(a), also the body of the trigger
\* trigger_follower_history_growth_update
UpdateAccountGrowthPeriodsOn(m, hist, a, today) ==
    UpsertPeriods(m, hist, a, GrowthPeriodsOf(today))

\* INSERT INTO account_follower_history with its AFTER INSERT trigger
HistoryRow(a, count, change, today) ==
    [account_id |-> a, follower_count |-> count, change_amount |-> change, date |-> today]

\* the database after the migrations, with no follower value recorded yet
InitGrowth ==
    /\ currentDate = 1
    /\ followerSnapshots = [a \in GrowthAccounts |-> [d \in Dates |-> NoSnapshot]]
    /\ followerHistory = <<>>
    /\ accountFollowers = [a \in GrowthAccounts |-> 0]
    /\ growthMetrics = [k \in GrowthAccounts \X PeriodTypes \X Dates |-> NoMetric]
    /\ growthResult = [op |-> "none"]

\* a call that raised: the transaction is rolled back
GrowthRaised(opname, a) ==
    /\ growthResult' = [op |-> opname, account |-> a, raised |-> TRUE]
    /\ UNCHANGED <<followerSnapshots, followerHistory, accountFollowers, growthMetrics>>

\* record_daily_follower_snapshot(a, count, date)
RecordDailyFollowerSnapshot(a, count, date) ==
    /\ Len(followerHistory) < MaxHistory
    /\ LET earlier == {d \in SnapshotDates(followerSnapshots, a) : d < date}
           found == IF earlier = {} THEN Null
                    ELSE followerSnapshots[a][CHOOSE d \in earlier :
                                                 \A e \in earlier : e <= d].follower_count
           v_previous_count == Coalesce(found, count)
           v_change_amount == count - v_previous_count
           v_change_percentage == IF v_previous_count > 0
                                  THEN PercentageOf(v_change_amount, v_previous_count)
                                  ELSE 0
           hist == Append(followerHistory, HistoryRow(a, count, v_change_amount, currentDate))
           trig == UpdateAccountGrowthPeriodsOn(growthMetrics, hist, a, currentDate)
       IN  IF NumericOverflow(v_change_percentage) \/ trig.raised
           THEN GrowthRaised("record_daily_follower_snapshot", a)
           ELSE /\ followerSnapshots' =
                     [followerSnapshots EXCEPT ![a][date] =
                         [present |-> TRUE,
                          follower_count |-> count,
                          change_from_previous |-> v_change_amount,
                          change_percentage |-> v_change_percentage]]
                /\ accountFollowers' = [accountFollowers EXCEPT ![a] = count]
                /\ followerHistory' = hist
                /\ growthMetrics' = trig.table
                /\ growthResult' = [op |-> "record_daily_follower_snapshot",
                                    account |-> a, raised |-> FALSE]
    /\ UNCHANGED currentDate

\* update_account_follower_count_with_auto_growth(a, count)
UpdateAccountFollowerCountWithAutoGrowth(a, count) ==
    /\ Len(followerHistory) < MaxHistory
    /\ LET v_change_amount == count - Coalesce(accountFollowers[a], 0)
           hist == Append(followerHistory, HistoryRow(a, count, v_change_amount, currentDate))
           trig == UpdateAccountGrowthPeriodsOn(growthMetrics, hist, a, currentDate)
       IN  IF trig.raised
           THEN GrowthRaised("update_account_follower_count_with_auto_growth", a)
           ELSE /\ accountFollowers' = [accountFollowers EXCEPT ![a] = count]
                /\ followerHistory' = hist
                /\ growthMetrics' = trig.table
                /\ growthResult' = [op |-> "update_account_follower_count_with_auto_growth",
                                    account |-> a, raised |-> FALSE]
    /\ UNCHANGED <<currentDate, followerSnapshots>>

\* update_account_growth_periods(a), called by the follower service
UpdateAccountGrowthPeriods(a) ==
    /\ LET r == UpdateAccountGrowthPeriodsOn(growthMetrics, followerHistory, a, currentDate)
       IN  /\ growthMetrics' = r.table
           /\ growthResult' = [op |-> "update_account_growth_periods",
                               account |-> a, raised |-> r.raised]
    /\ UNCHANGED <<currentDate, followerSnapshots, followerHistory, accountFollowers>>

\* get_account_growth_days(a, days): the rows it returns
AccountGrowthDays(snaps, a, days, today) ==
    LET W == {d \in SnapshotDates(snaps, a) : d >= today - days /\ d <= today}
        period_start == CHOOSE d \in W : \A e \in W : d <= e
        period_end == CHOOSE d \in W : \A e \in W : e <= d
        start_count == snaps[a][period_start].follower_count
        end_count == snaps[a][period_end].follower_count
    IN  IF W = {} THEN <<>>
        ELSE <<[start_date |-> period_start,
                end_date |-> period_end,
                start_followers |-> start_count,
                end_followers |-> end_count,
                total_change |-> end_count - start_count,
                percentage_change |-> IF start_count > 0
                                      THEN PercentageOf(end_count - start_count, start_count)
                                      ELSE 0,
                avg_daily_change |-> IF days > 0
                                     THEN RoundDiv((end_count - start_count) * 100, days)
                                     ELSE 0]>>

GetAccountGrowthDays(a, days) ==
    /\ growthResult' = [op |-> "get_account_growth_days", account |-> a, days |-> days,
                        rows |-> AccountGrowthDays(followerSnapshots, a, days, currentDate)]
    /\ UNCHANGED <<currentDate, followerSnapshots, followerHistory, accountFollowers,
                   growthMetrics>>

\* the account_growth CTE of get_top_growing_accounts_period
AccountGrowthRow(snaps, followers, a, days, today) ==
    LET both == /\ today - days \in Dates
                /\ snaps[a][today - days].present
                /\ snaps[a][today].present
        s1 == snaps[a][today - days].follower_count
        s2 == snaps[a][today].follower_count
    IN  [account_id |-> a,
         current_followers |-> followers[a],
         growth_amount |-> IF both THEN s2 - s1 ELSE 0,
         growth_percentage |-> IF both /\ s1 > 0 THEN PercentageOf(s2 - s1, s1) ELSE 0]

\* the orders ORDER BY growth_amount DESC allows: rows of equal
\* growth_amount come in any order
TopGrowingOrders(snaps, followers, days, today) ==
    LET A == {a \in GrowthAccounts : followers[a] # Null}
        row(a) == AccountGrowthRow(snaps, followers, a, days, today)
    IN  {[i \in 1..Cardinality(A) |-> row(p[i])] :
            p \in {q \in [1..Cardinality(A) -> A] :
                     /\ \A i, j \in 1..Cardinality(A) : i # j => q[i] # q[j]
                     /\ \A i, j \in 1..Cardinality(A) :
                           i < j => row(q[i]).growth_amount >= row(q[j]).growth_amount}}

\* LIMIT p_limit
Limit(rows, n) == SubSeq(rows, 1, Min({n, Len(rows)}))

\* get_top_growing_accounts_period(days, limit)
GetTopGrowingAccountsPeriod(days, limit) ==
    /\ \E rows \in TopGrowingOrders(followerSnapshots, accountFollowers, days, currentDate) :
          growthResult' = [op |-> "get_top_growing_accounts_period", days |-> days,
                           limit |-> limit, rows |-> Limit(rows, limit)]
    /\ UNCHANGED <<currentDate, followerSnapshots, followerHistory, accountFollowers,
                   growthMetrics>>

\* midnight passes
NextDay ==
    /\ currentDate < MaxDay
    /\ currentDate' = currentDate + 1
    /\ growthResult' = [op |-> "none"]
    /\ UNCHANGED <<followerSnapshots, followerHistory, accountFollowers, growthMetrics>>

tweetVars == <<now, rlVars, syncInterval, lastInvoke, runs, isRunning, inFlight, pc, phase,
               wake, idx, lastTweetId, pending, stats, aggregateStats, done,
               lastApiErrorTime, lastTransientTime, store, lastIngest, callLog,
               failedFetch, quotaRaised, accountsTable, faults, runLimit, syncStats, returned, ingestVars>>

\* the operations of the follower growth database
NextGrowth ==
    \/ NextDay /\ UNCHANGED <<tweetVars, serverVars>>
    \/ \E a \in GrowthAccounts, count \in FollowerCounts, date \in {currentDate - 1, currentDate} :
          RecordDailyFollowerSnapshot(a, count, date) /\ UNCHANGED <<tweetVars, serverVars>>
    \/ \E a \in GrowthAccounts, count \in FollowerCounts :
          UpdateAccountFollowerCountWithAutoGrowth(a, count) /\ UNCHANGED <<tweetVars, serverVars>>
    \/ \E a \in GrowthAccounts : UpdateAccountGrowthPeriods(a) /\ UNCHANGED <<tweetVars, serverVars>>
    \/ \E a \in GrowthAccounts, days \in Dates :
          GetAccountGrowthDays(a, days) /\ UNCHANGED <<tweetVars, serverVars>>
    \/ \E days \in Dates, limit \in 1..NumEntities :
          GetTopGrowingAccountsPeriod(days, limit) /\ UNCHANGED <<tweetVars, serverVars>>


(* ------------- ProductionSyncServer: the follower count sync ------------ *)
\* a runFollowerSync call that is awaiting getAccountsWithTwitterHandles
NewFollowerPass == [pc |-> "accounts", batch |-> <<>>, found |-> {}, i |-> 0,
                    success |-> 0, errors |-> 0]

\* the server after construction
InitServer ==
    /\ followerSyncInterval = FALSE
    /\ isShuttingDown = FALSE
    /\ followerPasses = <<>>
    /\ followerRuns = 0

\* the sequence without its k-th element
RemoveAt(seq, k) == SubSeq(seq, 1, k - 1) \o SubSeq(seq, k + 1, Len(seq))

\* runFollowerSync(), up to its first await
RunFollowerSyncEntry ==
    IF isShuttingDown
    THEN UNCHANGED <<followerPasses, followerRuns>>
    ELSE /\ followerRuns < MaxFollowerPasses
         /\ followerPasses' = Append(followerPasses, NewFollowerPass)
         /\ followerRuns' = followerRuns + 1

\* startFollowerSync(): the initial pass and the timer
StartFollowerSync ==
    /\ ~ followerSyncInterval
    /\ followerRuns = 0
    /\ RunFollowerSyncEntry
    /\ followerSyncInterval' = TRUE
    /\ UNCHANGED isShuttingDown
    /\ UNCHANGED <<tweetVars, growthVars>>

\* the setInterval callback of startFollowerSync
FollowerTimerTick ==
    /\ followerSyncInterval
    /\ RunFollowerSyncEntry
    /\ UNCHANGED <<followerSyncInterval, isShuttingDown>>
    /\ UNCHANGED <<tweetVars, growthVars>>

\* getAccountsWithTwitterHandles() answers pass k: the accounts, or [] when
\* the read failed, and then the pass ends with no success
FollowerAccounts(k) ==
    /\ followerPasses[k].pc = "accounts"
    /\ \E ok \in BOOLEAN :
          followerPasses' =
             IF ok
             THEN [followerPasses EXCEPT ![k].pc = "users",
                                         ![k].batch = [j \in 1..NumEntities |-> j]]
             ELSE RemoveAt(followerPasses, k)
    /\ UNCHANGED <<followerSyncInterval, isShuttingDown, followerRuns>>
    /\ UNCHANGED <<tweetVars, growthVars>>

\* getMultipleUsersInfo() answers pass k: the users found, none on an error
FollowerUsers(k) ==
    /\ followerPasses[k].pc = "users"
    /\ \E found \in SUBSET SeqToSet(followerPasses[k].batch) :
          followerPasses' = [followerPasses EXCEPT ![k].pc = "update",
                                                  ![k].found = found,
                                                  ![k].i = 1]
    /\ UNCHANGED <<followerSyncInterval, isShuttingDown, followerRuns>>
    /\ UNCHANGED <<tweetVars, growthVars>>

\* pass k after the update of its account i, which counted as a success or
\* as an error: the next account, or the end of updateAllFollowerCounts
FollowerAfterUpdate(k, ok) ==
    LET q == followerPasses[k]
        r == [q EXCEPT !.success = @ + (IF ok THEN 1 ELSE 0),
                       !.errors = @ + (IF ok THEN 0 ELSE 1)]
    IN  followerPasses' =
           IF q.i < Len(q.batch) THEN [followerPasses EXCEPT ![k] = [r EXCEPT !.i = @ + 1]]
           ELSE IF r.success > 0 THEN [followerPasses EXCEPT ![k] = [r EXCEPT !.pc = "top"]]
           ELSE RemoveAt(followerPasses, k)

\* pass k at account i of its batch: updateAccountFollowerCount when the
\* user was found, which calls update_account_follower_count_with_auto_growth
FollowerUpdate(k) ==
    /\ followerPasses[k].pc = "update"
    /\ LET a == followerPasses[k].batch[followerPasses[k].i]
       IN  IF a \in followerPasses[k].found
           THEN \/ \E count \in FollowerCounts :
                      /\ UpdateAccountFollowerCountWithAutoGrowth(a, count)
                      /\ FollowerAfterUpdate(k, ~ growthResult'.raised)
                \/ /\ FollowerAfterUpdate(k, FALSE)
                   /\ UNCHANGED growthVars
           ELSE /\ FollowerAfterUpdate(k, FALSE)
                /\ UNCHANGED growthVars
    /\ UNCHANGED <<followerSyncInterval, isShuttingDown, followerRuns>>
    /\ UNCHANGED tweetVars

\* getTopAccountsByFollowers() answers pass k, which logs and ends
FollowerTop(k) ==
    /\ followerPasses[k].pc = "top"
    /\ followerPasses' = RemoveAt(followerPasses, k)
    /\ UNCHANGED <<followerSyncInterval, isShuttingDown, followerRuns>>
    /\ UNCHANGED <<tweetVars, growthVars>>

\* shutdown(): stopAutomaticSync and clearInterval
Shutdown ==
    /\ ~ isShuttingDown
    /\ isShuttingDown' = TRUE
    /\ followerSyncInterval' = FALSE
    /\ syncInterval' = FALSE
    /\ lastInvoke' = IF syncInterval THEN "stopped" ELSE lastInvoke
    /\ UNCHANGED <<followerPasses, followerRuns>>
    /\ UNCHANGED <<now, rlVars, runs, isRunning, inFlight, pc, phase,
                   wake, idx, lastTweetId, pending, stats, aggregateStats, done,
                   lastApiErrorTime, lastTransientTime, store, lastIngest, callLog,
                   failedFetch, quotaRaised, accountsTable, faults, runLimit, syncStats,
                   returned, ingestVars, growthVars>>

\* the follower count sync of the server
NextServer ==
    \/ StartFollowerSync
    \/ FollowerTimerTick
    \/ Shutdown
    \/ \E k \in DOMAIN followerPasses : FollowerAccounts(k)
    \/ \E k \in DOMAIN followerPasses : FollowerUsers(k)
    \/ \E k \in DOMAIN followerPasses : FollowerUpdate(k)
    \/ \E k \in DOMAIN followerPasses : FollowerTop(k)

InitRateLimitManager ==
    /\ now = StartTime
    /\ requestWindow = <<>>
    /\ monthlyRequestCount = 0
    /\ monthlyPostCount = 0
    /\ monthStartDate = MonthStartOf(StartTime)
    /\ lastRequestTime = 0
    /\ rlPc = "none"
    /\ rlWake = 0
    /\ rlResult = [op |-> "none"]
    /\ reqLog = <<>>

\* the tables an earlier process can have left for account e: nothing, or
\* every tweet, stored by storeNewTweets with its own creation instant
EarlierTables(e) ==
    {[id \in TweetIds |->
        IF id <= n THEN [present |-> TRUE, created_at |-> RealCreatedAt(id), like_count |-> 0,
                         text |-> DefaultText, url |-> Url(TwitterHandle(e), id)]
                   ELSE NoRow] : n \in {0, MaxTweets}}

\* the service after construction, with accounts in the accounts table
InitEngine(accounts, f, limit) ==
    /\ syncInterval = FALSE
    /\ isRunning = FALSE
    /\ lastApiErrorTime = 0
    /\ pc = "idle"
    /\ phase = "none"
    /\ wake = 0
    /\ idx = 0
    /\ lastTweetId = 0
    /\ pending = <<>>
    /\ stats = ZeroStats
    /\ aggregateStats = ZeroStats
    /\ accountsTable = accounts
    /\ store \in [SeqToSet(accounts) -> UNION {EarlierTables(e) : e \in SeqToSet(accounts)}]
    /\ \A e \in SeqToSet(accounts) :
          store[e] \in (IF f THEN EarlierTables(e) ELSE {EmptyTable})
    /\ faults = f
    /\ runLimit = limit
    /\ InitGrowth
    /\ InitServer
    /\ lastInvoke = "none"
    /\ runs = 0
    /\ inFlight = 0
    /\ callLog = <<>>
    /\ lastTransientTime = 0
    /\ failedFetch = {}
    /\ quotaRaised = FALSE
    /\ done = {}
    /\ lastIngest = NoIngest
    /\ syncStats = <<>>
    /\ returned = 0

Init ==
    /\ InitRateLimitManager
    /\ InitEngine([i \in 1..NumEntities |-> i], FALSE, MaxRuns)
    /\ apiResponse = <<>>

\* the run over three accounts
InitThree ==
    /\ InitRateLimitManager
    /\ InitEngine(<<1, 2, 3>>, FALSE, MaxRuns)
    /\ apiResponse = <<>>

\* the accounts table as in Init, with store errors and malformed payloads
InitIngest ==
    /\ InitRateLimitManager
    /\ InitEngine([i \in 1..NumEntities |-> i], TRUE, MaxRuns)
    /\ apiResponse = <<>>

\* the RateLimitManager after construction when loadPersistedStats() found
\* RATE_LIMIT_STATS of the current month: the monthly counts are restored
InitPersistedRateLimitManager ==
    /\ now = StartTime
    /\ requestWindow = <<>>
    /\ monthlyRequestCount \in 0..RequestsPerMonth
    /\ monthlyPostCount = 0
    /\ monthStartDate = MonthStartOf(StartTime)
    /\ lastRequestTime = 0
    /\ rlPc = "none"
    /\ rlWake = 0
    /\ rlResult = [op |-> "none"]
    /\ reqLog = <<>>

\* a long-lived scheduler over one account, started with restored counts
InitQuota ==
    /\ InitPersistedRateLimitManager
    /\ InitEngine(<<1>>, FALSE, MaxScheduledRuns)
    /\ apiResponse = <<>>

\* one account, and an API response about to be handed to storeNewTweets or
\* to updateEngagementMetrics: one tweet object with any text, or an answer
\* of the timeline
InitText ==
    /\ InitRateLimitManager
    /\ InitEngine(<<1>>, TRUE, MaxRuns)
    /\ apiResponse \in {<<[id |-> id, like_count |-> 0, defect |-> d, text |-> t]>> :
                           id \in TweetIds, d \in Defects, t \in Texts}
                        \cup (TimelineResponses(0, TRUE) \ {<<>>})

\* storeNewTweets(account, apiResponse); the caller keeps the count it
\* returns in its stats
StoreNewTweetsCall ==
    /\ \E failing \in WriteFailures(apiResponse, faults) :
          LET e == accountsTable[1]
              r == StoreNewTweets(store[e], e, apiResponse, now, failing)
          IN  /\ store' = [store EXCEPT ![e] = r.table]
              /\ stats' = [ZeroStats EXCEPT !.tweetsAdded = r.stored]
              /\ lastIngest' = IngestOf(e, apiResponse, failing)
    /\ UNCHANGED <<now, rlVars, syncInterval, lastInvoke, runs, isRunning, inFlight, pc, phase,
                   wake, idx, lastTweetId, pending, aggregateStats, done,
                   lastApiErrorTime, lastTransientTime, callLog, failedFetch, quotaRaised,
                   accountsTable, faults, runLimit, growthVars, ingestVars, serverVars, syncStats, returned>>

\* updateEngagementMetrics(accountSlug, apiResponse); the caller keeps the
\* counts it returns in its stats
UpdateEngagementMetricsCall ==
    /\ \E failing \in WriteFailures(apiResponse, faults) :
          LET e == accountsTable[1]
              r == UpdateEngagementMetrics(store[e], apiResponse, now, failing)
          IN  /\ store' = [store EXCEPT ![e] = r.table]
              /\ stats' = [ZeroStats EXCEPT !.tweetsUpdated = r.updated,
                                            !.tweetsAdded = r.added,
                                            !.totalTweetsProcessed = Len(apiResponse)]
              /\ lastIngest' = IngestOf(e, apiResponse, failing)
    /\ UNCHANGED <<now, rlVars, syncInterval, lastInvoke, runs, isRunning, inFlight, pc, phase,
                   wake, idx, lastTweetId, pending, aggregateStats, done,
                   lastApiErrorTime, lastTransientTime, callLog, failedFetch, quotaRaised,
                   accountsTable, faults, runLimit, growthVars, ingestVars, serverVars, syncStats, returned>>

\* the two store functions applied to a response
NextText ==
    \/ StoreNewTweetsCall
    \/ UpdateEngagementMetricsCall

NextRL ==
    \/ RLTick
    \/ RLCanMakeRequest
    \/ RLCheckRateLimit
    \/ RLAfterDelay
    \/ RLAfterWindow
    \/ RLWaitForRateLimit
    \/ RLAfterWait
    \/ RLIncrementRequestCount
    \/ RLIncrementPostCount
    \/ RLGetStatus
    \/ RLSettle

\* the steps of a pass
PassStep ==
    \/ LoadAccounts
    \/ GateEnter
    \/ GateAfterCooldown
    \/ GateAfterDelay
    \/ GateAfterWindow
    \/ IssueCall
    \/ UserGateThrew
    \/ UserResponse
    \/ TimelineGateThrew
    \/ TimelineResponse
    \/ BatchStart
    \/ BatchWait
    \/ BatchAfterWait
    \/ BatchWaited
    \/ BatchGateThrew
    \/ BatchResponse
    \/ BatchFailure
    \/ LogSyncStats

Next ==
    \/ Tick
    \/ RunOnce
    \/ StartAutomaticSync
    \/ StopAutomaticSync
    \/ TimerTick
    \/ PassStep

NextRun ==
    \/ Tick
    \/ RunOnce
    \/ PassStep

\* the scheduler is started and stays started: passes come from
\* startAutomaticSync and from its interval callback only
NextScheduled ==
    \/ Tick
    \/ StartAutomaticSync
    \/ TimerTick
    \/ PassStep

SpecRL == Init /\ [][NextRL]_vars

Spec == Init /\ [][Next]_vars


SpecThree == InitThree /\ [][NextRun]_vars

SpecIngest == InitIngest /\ [][NextRun]_vars

SpecQuota == InitQuota /\ [][NextScheduled]_vars

SpecGrowth == Init /\ [][NextGrowth]_vars

SpecText == InitText /\ [][NextText]_vars

SpecServer == Init /\ [][NextServer]_vars

(* ================ claims on the EngagementSyncService ================= *)
\* an invocation of runEngagementSync, by a caller or by the scheduler
Invocation == RunOnce \/ StartAutomaticSync \/ TimerTick

\* C1: an invocation of runEngagementSync while a pass is in flight is
\* rejected and starts nothing; a pass starts only in an invocation made
\* while none is in flight (nothing is queued); two passes are never in
\* flight together.
C1_NoConcurrentPass ==
    [][/\ (/\ \/ RunOnce
              \/ StartAutomaticSync
              \/ TimerTick /\ ~ (now - lastApiErrorTime < ApiErrorCooldown)
           /\ isRunning)
          => /\ lastInvoke' = "rejected"
             /\ UNCHANGED <<runs, inFlight, isRunning, pc, phase, wake, idx, pending,
                            stats, aggregateStats, callLog>>
       /\ runs' # runs => Invocation /\ ~ isRunning /\ inFlight = 0
       /\ inFlight' <= 1]_vars

C1_Witness ==
    /\ lastInvoke = "rejected"
    /\ isRunning
    /\ inFlight = 1
    /\ pc \in {"user", "timeline", "batch"}

\* C2: no external call is issued less than ApiErrorCooldown after an
\* external call failed with a transient error.
C2_CooldownAfterTransientError ==
    [][IssueCall => now - lastTransientTime >= ApiErrorCooldown]_vars

\* C3: a timer tick that fires less than ApiErrorCooldown after the last
\* recorded API error starts no pass, issues no call and records a skip.
C3_TickInCooldownSkips ==
    [][(TimerTick /\ now - lastApiErrorTime < ApiErrorCooldown)
          => /\ lastInvoke' = "skipped"
             /\ UNCHANGED <<runs, inFlight, isRunning, pc, phase, wake, idx, pending,
                            stats, aggregateStats, callLog, store>>]_vars

C3_Witness ==
    /\ lastInvoke = "skipped"
    /\ lastApiErrorTime > 0
    /\ now - lastApiErrorTime < ApiErrorCooldown
    /\ ~ isRunning

\* C4: after a pass over three accounts in which the timeline fetch of the
\* second failed, the first and the third were processed and aggregated and
\* the returned errors hold an entry of the second.
C4_SecondEntityErrorReported ==
    (/\ pc = "idle"
     /\ runs > 0
     /\ Len(accountsTable) = 3
     /\ failedFetch = {2})
       => /\ {1, 3} \subseteq done
          /\ \E i \in DOMAIN aggregateStats.errors : aggregateStats.errors[i].account = 2

\* C5: when the timeline fetch of an account failed, the id that
\* getLastSyncedTweetId yields once the account is done is the id it yielded
\* before the fetch.
C5_CursorUnchangedOnFailedFetch ==
    [][\A e \in done' \ done :
          (e \in failedFetch /\ lastTweetId # 0)
             => LastSyncedCandidates(store'[e]) = {lastTweetId}]_vars

\* C6: after a store operation took in a tweet, the one row of its id shows
\* the counters of that ingestion, also when the id was stored before.
C6_IngestionWritesCounters ==
    lastIngest.account # 0
       => \A id \in TweetIds :
             lastIngest.like_count[id] >= 0
                => /\ store[lastIngest.account][id].present
                   /\ store[lastIngest.account][id].like_count = lastIngest.like_count[id]

(* ===================== claims on the RateLimitManager ================== *)
\* recordRequest calls whose instant lies within the window that ends at t
RecordedWithin(t) == Cardinality({i \in DOMAIN reqLog : reqLog[i] > t - FifteenMinutes})

\* entries of the tracked window that survive pruning at t
LiveEntries(t) == Cardinality({i \in DOMAIN requestWindow : requestWindow[i] > t - FifteenMinutes})

\* the monthly request count as seen after the lazy calendar rollover at t
RolledRequestCount(t) == IF MonthStartOf(t) > monthStartDate THEN 0 ELSE monthlyRequestCount

SpacingElapsed(t) == t - lastRequestTime >= DelayBetweenRequests

\* C7 (as stated): a canProceed call answers true whenever fewer than L
\* requests were recorded within W, and false whenever L or more were.
C7_Original ==
    [][CanMakeRequest =>
          /\ (RecordedWithin(now) < RequestsPer15Min => rlResult'.value = TRUE)
          /\ (RecordedWithin(now) >= RequestsPer15Min => rlResult'.value = FALSE)]_vars

\* C7 (amended): with fewer than L requests recorded within W, canProceed is
\* true provided the minimum spacing has elapsed and the monthly request count
\* is below its limit; with L or more recorded within W it is false, and it
\* stays false until the oldest of them has aged out of W.
C7_QuotaMonotonicity ==
    [][CanMakeRequest =>
          /\ (RecordedWithin(now) < RequestsPer15Min
                /\ SpacingElapsed(now)
                /\ RolledRequestCount(now) < RequestsPerMonth
              => rlResult'.value = TRUE)
          /\ (RecordedWithin(now) >= RequestsPer15Min => rlResult'.value = FALSE)]_vars

\* C7 witness: L requests were recorded, aged out of the window, and
\* canProceed answered true again
C7_Witness ==
    /\ rlResult.op = "canMakeRequest"
    /\ rlResult.value = TRUE
    /\ Len(reqLog) >= RequestsPer15Min
    /\ requestWindow = <<>>

\* C8: canProceed is true exactly when, after pruning, the window count is
\* below its limit, the monthly request count is below its limit and the
\* minimum spacing has elapsed; an empty window never blocks.
C8_CanProceedIff ==
    [][CanMakeRequest =>
          /\ rlResult'.value = (/\ LiveEntries(now) < RequestsPer15Min
                                /\ RolledRequestCount(now) < RequestsPerMonth
                                /\ SpacingElapsed(now))
          /\ (requestWindow = <<>> =>
                rlResult'.value = (RolledRequestCount(now) < RequestsPerMonth
                                     /\ SpacingElapsed(now)))]_vars

\* C8 witness: canProceed answered false with the window and the monthly
\* count below their limits, because of the minimum spacing alone
C8_Witness ==
    /\ rlResult.op = "canMakeRequest"
    /\ rlResult.value = FALSE
    /\ Len(requestWindow) < RequestsPer15Min
    /\ monthlyRequestCount < RequestsPerMonth
    /\ now - lastRequestTime < DelayBetweenRequests

\* C9 (as stated): every accounting operation called after the month has
\* advanced resets both monthly counters and advances the month start, so
\* usage recorded in the new month counts against the new month.
C9_RolloverOnEveryOperation ==
    [][MonthlyResetDue(now, monthStartDate) =>
          /\ (CanMakeRequest \/ CheckRateLimitEnter \/ GetStatus =>
                /\ monthStartDate' = MonthStartOf(now)
                /\ monthlyRequestCount' = 0
                /\ monthlyPostCount' = 0)
          /\ (IncrementRequestCount =>
                /\ monthStartDate' = MonthStartOf(now)
                /\ monthlyRequestCount' = 1
                /\ monthlyPostCount' = 0)
          /\ \A n \in 1..MaxPostBatch :
                (IncrementPostCount(n) =>
                   /\ monthStartDate' = MonthStartOf(now)
                   /\ monthlyRequestCount' = 0
                   /\ monthlyPostCount' = n)]_vars

\* C10: checkRateLimit never returns normally while the monthly request
\* count is at or above the monthly limit; it ends by raising instead.
C10_MonthlyHardStop ==
    [][(CheckRateLimitEnter \/ CheckRateLimitAfterDelay \/ CheckRateLimitAfterWindow) =>
          /\ (rlPc' = "returned" => monthlyRequestCount' < RequestsPerMonth)
          /\ (rlPc' \in {"returned", "threw"} /\ monthlyRequestCount' >= RequestsPerMonth
                => rlPc' = "threw")]_vars

\* C10 witness: checkRateLimit raised with the monthly count at the cap
C10_Witness ==
    /\ rlPc = "threw"
    /\ monthlyRequestCount >= RequestsPerMonth

(* ========== claims on the engine's use of the RateLimitManager ========== *)
\* C11: whenever no request is in flight, incrementRequestCount has been
\* called as many times as external calls were issued.
C11_RecordedOncePerCall ==
    phase # "inflight" => Len(reqLog) = Len(callLog)

\* external calls issued within the fifteen minutes that end at t
IssuedWithin(t) ==
    Cardinality({i \in DOMAIN callLog : callLog[i] > t - FifteenMinutes /\ callLog[i] <= t})

\* C12: within the fifteen minutes that end at any external call the engine
\* issued at most RequestsPer15Min calls.
C12_WindowLimitOnEngine ==
    \A i \in DOMAIN callLog : IssuedWithin(callLog[i]) <= RequestsPer15Min

\* a call that was held back by the saturated window and then issued
C12_Witness ==
    /\ Len(callLog) > RequestsPer15Min
    /\ IssuedWithin(callLog[Len(callLog)]) = RequestsPer15Min
    /\ callLog[Len(callLog)] - callLog[Len(callLog) - RequestsPer15Min] = FifteenMinutes

(* =================== claims on the end of a pass ======================= *)
\* the returned stats hold a top-level (fatal) error
FatalErrorIn(st) == \E i \in DOMAIN st.errors : st.errors[i].kind = "fatal"

\* C13: whenever no pass is under way the isRunning flag is clear, whichever
\* way the last pass ended, and an invocation made then starts a pass.
C13_FlagClearedOnEveryExit ==
    [][/\ pc' = "idle" => ~ isRunning' /\ inFlight' = 0
       /\ (RunOnce /\ pc = "idle") => lastInvoke' = "started" /\ isRunning']_vars

\* a pass that ended in the outer catch
C13_Witness ==
    /\ pc = "idle"
    /\ runs > 0
    /\ FatalErrorIn(aggregateStats)
    /\ ~ isRunning

\* C14: when a pass has ended with a top-level error, its stats, with that
\* error, are the row of the pass in account_sync_stats.
C14_FatalRunPersisted ==
    (pc = "idle" /\ runs > 0 /\ FatalErrorIn(aggregateStats))
       => /\ Len(syncStats) = runs
          /\ syncStats[runs] = aggregateStats

\* C15: every pass that was started and is no longer under way returned its
\* stats object, also when loading the accounts or storing the stats failed;
\* an invocation ends in no other way than started, rejected or skipped.
C15_ReturnsStatsOrRejected ==
    /\ returned = runs - inFlight
    /\ pc = "idle" => inFlight = 0
    /\ lastInvoke \in {"none", "started", "rejected", "skipped", "stopped"}

\* a pass that returned its stats although storing them failed
C15_Witness ==
    /\ pc = "idle"
    /\ runs > 0
    /\ returned = runs
    /\ ~ FatalErrorIn(aggregateStats)
    /\ Len(syncStats) < runs

\* C16: an invocation that the guard rejects leaves the stats, the position
\* and the flag of the pass under way as they were, and the flag is cleared
\* only by the step that ends that pass.
C16_RejectionLeavesRunIntact ==
    [][/\ (Invocation /\ lastInvoke' = "rejected")
          => UNCHANGED <<isRunning, inFlight, runs, returned, aggregateStats, stats,
                         pc, phase, wake, idx, pending, done, failedFetch, syncStats>>
       /\ (isRunning /\ ~ isRunning')
          => /\ pc # "idle" /\ pc' = "idle"
             /\ returned' = returned + 1]_vars

\* a rejection while the pass under way has already aggregated an account
C16_Witness ==
    /\ lastInvoke = "rejected"
    /\ isRunning
    /\ aggregateStats # ZeroStats

(* ============== claims on the quota error and the scheduler ============= *)
\* error entries of the pass under way: aggregated ones and those of the
\* account being processed
ErrorCount == Len(aggregateStats.errors) + Len(stats.errors)

\* C17: whichever gated call checkRateLimit refuses with the monthly error,
\* the step that takes the error adds an entry to the errors of the pass.
C17_QuotaErrorInRunStats ==
    [][(UserGateThrew \/ TimelineGateThrew \/ BatchGateThrew)
          => ErrorCount' = ErrorCount + 1]_vars

\* C19: stopAutomaticSync clears the timer and touches nothing of a pass in
\* flight, which goes on to its end; while the timer is cleared no timer
\* tick fires, so a new pass starts only in an explicit invocation.
C19_StopPreventsTriggers ==
    [][/\ StopAutomaticSync
          => /\ ~ syncInterval'
             /\ UNCHANGED <<isRunning, inFlight, runs, returned, pc, phase, wake, idx,
                            pending, stats, aggregateStats, callLog, store, syncStats>>
       /\ ~ syncInterval => ~ TimerTick /\ lastInvoke' # "skipped"
       /\ (~ syncInterval /\ runs' # runs) => RunOnce \/ StartAutomaticSync]_vars

C19_Witness ==
    /\ lastInvoke = "stopped"
    /\ ~ syncInterval
    /\ isRunning
    /\ inFlight = 1
    /\ phase = "inflight"

(* ============ claims on the posts-per-month limit ============ *)
\* C20 (as stated): once the posts counted in the current month reach
\* PostsPerMonth no further call is permitted: canMakeRequest answers false
\* and checkRateLimit does not return normally.
C20_PostLimitEnforced ==
    [][/\ (CanMakeRequest /\ monthlyPostCount' >= PostsPerMonth)
          => rlResult'.value = FALSE
       /\ (CheckRateLimitEnter \/ CheckRateLimitAfterDelay \/ CheckRateLimitAfterWindow)
          => (rlPc' = "returned" => monthlyPostCount' < PostsPerMonth)]_vars

(* ============ claims on the scheduler after a quota error ============ *)
\* C18: a quota error disables nothing for good: it leaves the timer set,
\* and every timer tick that fires with no pass in flight and at least
\* ApiErrorCooldown after the last recorded error starts a new pass,
\* whatever errors earlier passes met.
C18_TickAfterQuotaErrorAttempts ==
    [][/\ (UserGateThrew \/ TimelineGateThrew \/ BatchGateThrew)
          => /\ syncInterval' = syncInterval
             /\ lastApiErrorTime' = now
       /\ (/\ TimerTick
           /\ ~ isRunning
           /\ now - lastApiErrorTime >= ApiErrorCooldown)
          => /\ lastInvoke' = "started"
             /\ isRunning'
             /\ runs' = runs + 1
             /\ pc' = "load"]_vars

\* C18 witness: the first pass, started by startAutomaticSync, met the
\* monthly cap before any call was issued (an API error is recorded and no
\* call was ever made) and has ended; the timer is still set and its tick
\* has started a second pass
C18_Witness ==
    /\ syncInterval
    /\ lastInvoke = "started"
    /\ runs = 2
    /\ returned = 1
    /\ isRunning
    /\ pc = "load"
    /\ lastApiErrorTime > 0
    /\ callLog = <<>>
    /\ now - lastApiErrorTime >= ApiErrorCooldown

(* ================= claims on the follower growth ===================== *)
\* the value at or before date d in the daily snapshots of account a, 0 when
\* there is none
ValueAtOrBefore(a, d) ==
    LET E == {e \in SnapshotDates(followerSnapshots, a) : e <= d}
    IN  IF E = {} THEN 0
        ELSE followerSnapshots[a][CHOOSE e \in E : \A f \in E : f <= e].follower_count

\* C21 (as stated): whenever get_account_growth_days(a, days) returns a row,
\* its total_change is end - start and its percentage_change is
\* round(delta / start * 100, 2) for start > 0 and 0 otherwise, where start
\* is the value at or before currentDate - days and end the value at or
\* before currentDate.
C21_WindowGrowthValues ==
    (growthResult.op = "get_account_growth_days" /\ growthResult.rows # <<>>) =>
        LET start == ValueAtOrBefore(growthResult.account, currentDate - growthResult.days)
            end == ValueAtOrBefore(growthResult.account, currentDate)
        IN  /\ growthResult.rows[1].total_change = end - start
            /\ growthResult.rows[1].percentage_change =
                  IF start > 0 THEN PercentageOf(end - start, start) ELSE 0

\* C22 (as stated): get_account_growth_days for an account without any
\* snapshot returns one row, with total_change 0 and percentage_change 0.
C22_NoSnapshotsZeroGrowth ==
    (/\ growthResult.op = "get_account_growth_days"
     /\ SnapshotDates(followerSnapshots, growthResult.account) = {})
       => /\ Len(growthResult.rows) = 1
          /\ growthResult.rows[1].total_change = 0
          /\ growthResult.rows[1].percentage_change = 0

\* rows a recording path has stored for account a and day d, in the daily
\* snapshots and in the follower history
RecordedRows(a, d) ==
    (IF followerSnapshots[a][d].present THEN {<<"follower_daily_snapshots", d>>} ELSE {})
    \cup {<<"account_follower_history", i>> : i \in {j \in DOMAIN followerHistory :
             followerHistory[j].account_id = a /\ followerHistory[j].date = d}}

\* C23 (as stated): in each table a recording path writes there is at most
\* one row per account and calendar day; a second recording on the same day
\* overwrites and adds no row.
C23_OneSnapshotPerDay ==
    \A a \in GrowthAccounts, d \in Dates :
       \A table \in {"follower_daily_snapshots", "account_follower_history"} :
          Cardinality({r \in RecordedRows(a, d) : r[1] = table}) <= 1

\* the calls that materialize the current growth periods of an account
MaterializingOps ==
    {"record_daily_follower_snapshot", "update_account_follower_count_with_auto_growth",
     "update_account_growth_periods"}

\* C24: materializing the growth periods of an account again, right after
\* they were materialized from the same follower history on the same day,
\* raises nothing and leaves account_growth_metrics as it was: one row per
\* (account, period type, period start), with the same start and end
\* followers, growth count and growth percentage.
C24_MaterializationIdempotent ==
    [][\A a \in GrowthAccounts :
          (/\ UpdateAccountGrowthPeriods(a)
           /\ growthResult.op \in MaterializingOps
           /\ growthResult.account = a
           /\ ~ growthResult.raised)
             => /\ growthMetrics' = growthMetrics
                /\ ~ growthResult'.raised]_vars

\* C24 witness: update_account_growth_periods has rewritten the daily row of
\* an account whose followers changed today, a row the insert trigger had
\* materialized before
C24_Witness ==
    /\ growthResult.op = "update_account_growth_periods"
    /\ ~ growthResult.raised
    /\ growthMetrics[<<growthResult.account, "daily", currentDate - 1>>].present
    /\ growthMetrics[<<growthResult.account, "daily", currentDate - 1>>].growth_count # 0

\* row r comes before row s in the order of topKByGrowth: absolute growth
\* descending, then percentage descending, then account id
RanksBefore(r, s) ==
    \/ r.growth_amount > s.growth_amount
    \/ /\ r.growth_amount = s.growth_amount
       /\ r.growth_percentage > s.growth_percentage
    \/ /\ r.growth_amount = s.growth_amount
       /\ r.growth_percentage = s.growth_percentage
       /\ r.account_id < s.account_id

\* C25 (as stated): get_top_growing_accounts_period returns the first limit
\* accounts of the order by growth amount descending, growth percentage
\* descending and account id: every returned row ranks before the rows
\* after it and before every account left out.
C25_TopKFullyOrdered ==
    growthResult.op = "get_top_growing_accounts_period" =>
       LET rows == growthResult.rows
           all == {AccountGrowthRow(followerSnapshots, accountFollowers, a,
                                    growthResult.days, currentDate) :
                      a \in {b \in GrowthAccounts : accountFollowers[b] # Null}}
       IN  /\ Len(rows) = Min({growthResult.limit, Cardinality(all)})
           /\ \A i, j \in DOMAIN rows : i < j => RanksBefore(rows[i], rows[j])
           /\ \A i \in DOMAIN rows :
                 \A s \in all \ {rows[k] : k \in DOMAIN rows} : RanksBefore(rows[i], s)

(* ============ claims on the validation of tweet objects ============== *)
\* characters (code points) of a well-formed text
RECURSIVE CodePoints(_)
CodePoints(text) ==
    IF text = <<>> THEN 0
    ELSE IF Head(text) = "H" THEN 1 + CodePoints(Tail(Tail(text)))
    ELSE 1 + CodePoints(Tail(text))

\* the first n characters of a well-formed text
RECURSIVE FirstCharacters(_, _)
FirstCharacters(text, n) ==
    IF n = 0 \/ text = <<>> THEN <<>>
    ELSE IF Head(text) = "H"
         THEN <<"H", "L">> \o FirstCharacters(Tail(Tail(text)), n - 1)
         ELSE <<Head(text)>> \o FirstCharacters(Tail(text), n - 1)

\* C26 (as stated): a row written from a tweet object holds the first
\* MaxTextLength characters of its text followed by the truncation marker
\* when the text is longer than MaxTextLength characters, and the text
\* unchanged otherwise.
C26_TextCutToCap ==
    [][(StoreNewTweetsCall \/ UpdateEngagementMetricsCall) =>
          \A i \in DOMAIN apiResponse :
             LET p == apiResponse[i]
                 e == accountsTable[1]
             IN  store'[e][p.id] # store[e][p.id] =>
                    store'[e][p.id].text =
                       IF CodePoints(p.text) > MaxTextLength
                       THEN FirstCharacters(p.text, MaxTextLength) \o TruncationMarker
                       ELSE p.text]_vars

\* C27: a tweet object without an id or without a text is rejected by
\* validateTweetData, and neither storeNewTweets nor updateEngagementMetrics
\* writes anything for it: the table is left as it was.
C27_MissingIdOrTextNeverStored ==
    [][(StoreNewTweetsCall \/ UpdateEngagementMetricsCall) =>
          \A i \in DOMAIN apiResponse :
             LET p == apiResponse[i]
                 e == accountsTable[1]
             IN  (p.defect \in {"no_id", "no_text"} \/ p.text = <<>>)
                    => /\ ~ ValidateTweetData(p, TwitterHandle(e), now).isValid
                       /\ store'[e][p.id] = store[e][p.id]
                       /\ lastIngest'.like_count[p.id] = -1]_vars

\* C27 witness: a store function ran on a tweet object without an id or
\* without a text, and the table has no row for it
C27_Witness ==
    /\ lastIngest.account = accountsTable[1]
    /\ \E i \in DOMAIN apiResponse :
          /\ apiResponse[i].defect \in {"no_id", "no_text"}
          /\ apiResponse[i].text # <<>>
          /\ ~ store[accountsTable[1]][apiResponse[i].id].present

\* the ids of the tweets a later fetchUserTweets(since_id = since) returns when
\* the account still has the tweets up to newest
DeliveredAgain(since, newest) ==
    UNION {{r[j].id : j \in DOMAIN r} :
             r \in {x \in TimelineResponses(since, FALSE) :
                       Len(x) = Max0(0, newest - since)}}

\* C28: after a fetched batch was stored in part, every valid tweet of the
\* batch that has no row yet is returned again by the next fetch, whichever
\* id getLastSyncedTweetId reads as the cursor: the cursor is not past a
\* tweet that was not stored.
C28_UnstoredRecordsRedelivered ==
    [][StoreNewTweetsCall =>
          LET e == accountsTable[1]
          IN  \A i \in DOMAIN apiResponse :
                 (/\ ValidateTweetData(apiResponse[i], TwitterHandle(e), now).isValid
                  /\ ~ store'[e][apiResponse[i].id].present)
                    => \A since \in LastSyncedTweetIds(store'[e], FALSE) :
                          apiResponse[i].id \in DeliveredAgain(since, apiResponse[1].id)]_vars

\* C29: after a batch of tweets newer than the cursor was stored completely,
\* the cursor getLastSyncedTweetId reads for the next fetch is the id of the
\* first tweet of the answer, the newest one in the order of the API.
C29_CursorIsNewestSeen ==
    [][StoreNewTweetsCall =>
          LET e == accountsTable[1]
          IN  (/\ \A i \in DOMAIN apiResponse :
                     /\ \A since \in LastSyncedTweetIds(store[e], FALSE) :
                           apiResponse[i].id > since
                     /\ store'[e][apiResponse[i].id].present)
                 => LastSyncedTweetIds(store'[e], FALSE) = {apiResponse[1].id}]_vars

(* ============ claims on a quota error inside a pass ============ *)
\* the timers a pass can sleep on inside checkRateLimit and waitForRateLimit
RateLimitSleeps == {"delay", "window", "waiting"}

\* C30: once checkRateLimit raised the monthly error in a pass, no step of
\* that pass sends a request, starts the cooldown sleep of
\* waitForApiErrorCooldown or starts a sleep of the rate limit manager: the
\* pass goes to its end without calling or sleeping again.
C30_QuotaErrorEndsRun ==
    [][(quotaRaised /\ pc # "idle")
          => /\ callLog' = callLog
             /\ ~ (phase' = "cooldown" /\ phase # "cooldown")
             /\ ~ (rlPc' \in RateLimitSleeps /\ rlPc' # rlPc)]_vars

(* ============ claims on errors inside the pass of an account ============ *)
\* C31: when the engagement fetch of an account raises, the pass is done with
\* that account: its remaining batches are not fetched, its stats are
\* aggregated and the pass is at the next account or at its end.
C31_FetchErrorAbortsEntity ==
    [][BatchFailure => /\ CurrentAccount \in done'
                       /\ pc' # "batch"]_vars

\* C32: the step that takes an error raised by an external call records the
\* error instant (lastApiErrorTime) exactly when the error is one of rate
\* limiting or transient unavailability; an error of any other kind, and a
\* call that is answered, leave lastApiErrorTime as it was.
C32_CooldownIffTransientError ==
    [][/\ BatchFailure
          => (lastApiErrorTime' # lastApiErrorTime
                 <=> lastTransientTime' # lastTransientTime)
       /\ (UserResponse \/ TimelineResponse \/ BatchResponse)
          => lastApiErrorTime' = lastApiErrorTime]_vars

(* ============ claims on the creation timestamp of a tweet ============ *)
\* C33 (as stated): a tweet object whose created_at is missing or cannot be
\* parsed passes validateTweetData, and the row a store function writes for
\* it has the current instant as created_at.
C33_BadTimestampNeverRejected ==
    [][(StoreNewTweetsCall \/ UpdateEngagementMetricsCall) =>
          \A i \in DOMAIN apiResponse :
             LET p == apiResponse[i]
                 e == accountsTable[1]
             IN  (p.defect \in {"no_date", "bad_date"} /\ p.text # <<>>)
                    => /\ ValidateTweetData(p, TwitterHandle(e), now).isValid
                       /\ (lastIngest'.like_count[p.id] # -1 /\ ~ store[e][p.id].present)
                             => /\ store'[e][p.id].present
                                /\ store'[e][p.id].created_at = now]_vars

\* C33 (amended): a tweet object whose created_at is present and cannot be
\* parsed passes validateTweetData and is written with the current instant
\* as created_at; a tweet object without created_at is rejected and nothing
\* is written for it.
C33_UnparsableStoredMissingRejected ==
    [][(StoreNewTweetsCall \/ UpdateEngagementMetricsCall) =>
          \A i \in DOMAIN apiResponse :
             LET p == apiResponse[i]
                 e == accountsTable[1]
                 v == ValidateTweetData(p, TwitterHandle(e), now)
                 taken == lastIngest'.like_count[p.id] # -1
             IN  /\ (p.defect = "bad_date" /\ p.text # <<>>)
                       => /\ v.isValid
                          /\ v.data.created_at = now
                          /\ (store'[e][p.id] # store[e][p.id])
                                => (store'[e][p.id].present /\ store'[e][p.id].created_at = now)
                          /\ (taken /\ ~ store[e][p.id].present) => store'[e][p.id].present
                 /\ (p.defect = "no_date")
                       => /\ ~ v.isValid
                          /\ store'[e][p.id] = store[e][p.id]
                          /\ ~ taken]_vars

\* C33 witness: a store function wrote the row of a tweet object whose
\* created_at cannot be parsed, with the current instant
C33_Witness ==
    /\ lastIngest.account = accountsTable[1]
    /\ \E i \in DOMAIN apiResponse :
          /\ apiResponse[i].defect = "bad_date"
          /\ lastIngest.like_count[apiResponse[i].id] # -1
          /\ store[accountsTable[1]][apiResponse[i].id].present
          /\ store[accountsTable[1]][apiResponse[i].id].created_at = now

(* ============ claims on the web links of a row ============ *)
\* C34: every row of the tweets table of an account carries the web link
\* built from the twitter_handle of that account and the id of the tweet,
\* whichever function inserted the row.
C34_RowsCarryLinks ==
    \A e \in DOMAIN store :
       \A id \in TweetIds :
          store[e][id].present => store[e][id].url = Url(TwitterHandle(e), id)

(* ============ claims on the two growth queries ============ *)
\* C35: for every row get_top_growing_accounts_period(days, limit) returns,
\* growth_amount and growth_percentage equal total_change and
\* percentage_change of the row get_account_growth_days returns for the same
\* account and the same days, whenever it returns one.
C35_TopKUsesWindowGrowth ==
    growthResult.op = "get_top_growing_accounts_period" =>
       \A i \in DOMAIN growthResult.rows :
          LET r == growthResult.rows[i]
              w == AccountGrowthDays(followerSnapshots, r.account_id, growthResult.days,
                                     currentDate)
          IN  w # <<>> => /\ r.growth_amount = w[1].total_change
                          /\ r.growth_percentage = w[1].percentage_change

(* ============ claims on failed writes inside a batch ============ *)
\* ids of the rows a step inserted into the table of account e
InsertedRows(e) == {id \in TweetIds : ~ store[e][id].present /\ store'[e][id].present}

C37_CallsUsedIsCallsIssued ==
    (runs = 1 /\ pc = "log") =>
        /\ aggregateStats.apiRequestsUsed = Len(callLog)
        /\ aggregateStats.apiRequestsUsed = Len(reqLog)

(* ============ claims on the rows of the daily snapshots ============ *)
\* follower_count of the latest snapshot of account a dated before d, Null
\* when there is none
PreviousSnapshotCount(a, d) ==
    LET earlier == {e \in SnapshotDates(followerSnapshots, a) : e < d}
    IN  IF earlier = {} THEN Null
        ELSE followerSnapshots[a][CHOOSE e \in earlier : \A f \in earlier : f <= e].follower_count

\* C38: in every row of follower_daily_snapshots, change_from_previous is
\* follower_count minus the follower_count of the latest earlier snapshot of
\* the account, and 0 when the account has no earlier snapshot.
C38_ChangeFromPrevious ==
    \A a \in GrowthAccounts :
       \A d \in SnapshotDates(followerSnapshots, a) :
          followerSnapshots[a][d].change_from_previous =
             IF PreviousSnapshotCount(a, d) = Null THEN 0
             ELSE followerSnapshots[a][d].follower_count - PreviousSnapshotCount(a, d)

(* ============ claims on the range of the percentages ============ *)
\* C39: no call that records a follower count or computes the growth of a
\* period raises: whatever the start and end counts, the percentage fits its
\* column and the call stores its rows.
C39_PercentageNeverOverflows ==
    growthResult.op \in {"record_daily_follower_snapshot",
                         "update_account_follower_count_with_auto_growth",
                         "update_account_growth_periods"}
       => ~ growthResult.raised

(* ============ claims on the follower count timer ============ *)
\* C40: at most one runFollowerSync pass is in flight at any time: a timer
\* tick that fires while a pass is under way starts no second pass.
C40_NoOverlappingFollowerSync ==
    Len(followerPasses) <= 1



====
